---- MODULE Spec2Model ----
(***************************************************************************)
(* Asset generation pipeline of isometric-city: the shared building        *)
(* registry (generated-buildings.json), retryWithBackoff, the Step 1       *)
(* per-address pipeline (generate-assets) and the Step 2 queue             *)
(* orchestrator (generate-3d-models).                                      *)
(*                                                                         *)
(* Strings that the code inspects character by character (place names,    *)
(* ids, file names) are sequences of one-character strings.  Messages are  *)
(* sequences of tokens, so that template strings are concatenations.       *)
(***************************************************************************)
EXTENDS Integers, Sequences, FiniteSets, TLC

VARIABLES
    storage,    \* app/data/generated-buildings.json: absent, malformed or a valid mapping
    files,      \* output directory of Step 1: file name -> content
    api,        \* last direct call of a registry function and what it returned
    rt,         \* the running retryWithBackoff call
    pc,         \* position of the running script
    opts,       \* configuration of the running script
    addresses,  \* Step 1: the address list read from the input file
    idx,        \* Step 1: loop index i of runPipeline (0-based)
    cur,        \* Step 1: locals of the processAddress call in progress
    results,    \* Step 1: results[] of runPipeline
    calls,      \* Step 1: external calls and writes issued by the processAddress call in progress
    pre,        \* Step 1: storage and files when the processAddress call in progress began
    log,        \* timed pauses and item starts of the running script, in order
    summary,    \* the results file written by saveResults
    exitCode,   \* exit status of the script: -1 while none, else 0 or 1
    runs,       \* number of script runs started
    glbs,       \* output directory of Step 2: the .glb files written
    s2          \* Step 2: locals of uploadAndQueuePhase and pollAndProcessPhase

vars == <<storage, files, api, rt, pc, opts, addresses, idx, cur, results,
          calls, pre, log, summary, exitCode, runs, glbs, s2>>

----------------------------------------------------------------------------
(* Bounds of the model *)

\* largest maxRetries tried on a direct retryWithBackoff call
MaxRetriesBound == 4
\* longest address list of a Step 1 run
MaxAddresses == 2
\* number of script runs in one behaviour
MaxRuns == 2
\* number of poll sweeps of one Step 2 run
MaxSweeps == 2
\* longest name handed to generateBuildingId directly
MaxNameLen == 4
\* the longest list of results handed to saveResults directly
MaxResults == 4
\* the number of upserts each of the two concurrent writers makes at most
MaxUpserts == 2

----------------------------------------------------------------------------
(* Strings *)

EmptyFn == [x \in {} |-> x]

UpperLetters == <<"A", "B", "C", "D", "E", "F", "G", "H", "I", "J", "K", "L", "M",
                  "N", "O", "P", "Q", "R", "S", "T", "U", "V", "W", "X", "Y", "Z">>
LowerLetters == <<"a", "b", "c", "d", "e", "f", "g", "h", "i", "j", "k", "l", "m",
                  "n", "o", "p", "q", "r", "s", "t", "u", "v", "w", "x", "y", "z">>
Digits == {"0", "1", "2", "3", "4", "5", "6", "7", "8", "9"}

\* String.prototype.toLowerCase on one character
LowerChar(c) ==
    IF \E k \in 1..Len(UpperLetters) : UpperLetters[k] = c
    THEN LowerLetters[CHOOSE k \in 1..Len(UpperLetters) : UpperLetters[k] = c]
    ELSE c

toLowerCase(s) == [k \in 1..Len(s) |-> LowerChar(s[k])]

\* the character class [a-z0-9]
IsAlnum(c) == c \in {LowerLetters[k] : k \in 1..Len(LowerLetters)} \cup Digits

RECURSIVE DropNonAlnum(_)
DropNonAlnum(s) ==
    IF s = <<>> \/ IsAlnum(Head(s)) THEN s ELSE DropNonAlnum(Tail(s))

\* mutant: .replace(/[^a-z0-9]/g, '-'), every character on its own
ReplaceRuns_each(s) == [k \in 1..Len(s) |-> IF IsAlnum(s[k]) THEN s[k] ELSE "-"]

\* .replace(/[^a-z0-9]+/g, '-')
RECURSIVE ReplaceRuns(_)
ReplaceRuns(s) ==
    IF s = <<>> THEN <<>>
    ELSE IF IsAlnum(Head(s)) THEN <<Head(s)>> \o ReplaceRuns(Tail(s))
    ELSE <<"-">> \o ReplaceRuns(DropNonAlnum(Tail(s)))

\* .replace(/^-|-$/g, '')
TrimDashes(s) ==
    LET t == IF s # <<>> /\ Head(s) = "-" THEN Tail(s) ELSE s
    IN  IF t # <<>> /\ t[Len(t)] = "-" THEN SubSeq(t, 1, Len(t) - 1) ELSE t

generateBuildingId(name) == TrimDashes(ReplaceRuns(toLowerCase(name)))

\* mutant: the name is not lower-cased first
generateFilename_keepCase(metadata) ==
    TrimDashes(ReplaceRuns(metadata.name)) \o <<".png">>

generateFilename(metadata) ==
    TrimDashes(ReplaceRuns(toLowerCase(metadata.name))) \o <<".png">>

\* JavaScript truthiness of a string
Truthy(s) == s # <<>>

----------------------------------------------------------------------------
(* Shared building registry *)

EmptyRegistry == [order |-> <<>>, rec |-> EmptyFn]

AbsentStorage == [kind |-> "absent", content |-> EmptyRegistry]
MalformedStorage == [kind |-> "malformed", content |-> EmptyRegistry]
ValidStorage(b) == [kind |-> "valid", content |-> b]

\* mutant: no catch around the read, so a missing file raises
readRegistry_noCatch(st) ==
    IF st.kind = "valid" THEN [threw |-> FALSE, value |-> st.content]
    ELSE [threw |-> TRUE, value |-> EmptyRegistry]

\* try { return JSON.parse(await fs.readFile(...)) } catch { return {} }
readRegistry(st) ==
    IF st.kind = "valid" THEN [threw |-> FALSE, value |-> st.content]
    ELSE [threw |-> FALSE, value |-> EmptyRegistry]

Has(b, id) == id \in DOMAIN b.rec

\* buildings[id] = r on an object whose keys keep insertion order
Assign(b, id, r) ==
    [order |-> IF Has(b, id) THEN b.order ELSE Append(b.order, id),
     rec   |-> (id :> r) @@ b.rec]

\* the record that ends up under buildingDef.id
StoredOnAdd(old, buildingDef) == buildingDef

addBuildingToRegistry(st, buildingDef) ==
    LET buildings == readRegistry(st).value
        old == IF Has(buildings, buildingDef.id) THEN buildings.rec[buildingDef.id]
               ELSE EmptyFn
    IN  ValidStorage(Assign(buildings, buildingDef.id, StoredOnAdd(old, buildingDef)))

\* mutant: every id is taken to be registered
buildingExists_always(st, buildingId) == TRUE

buildingExists(st, buildingId) == Has(readRegistry(st).value, buildingId)

\* buildings[buildingId] || null
getBuilding(st, buildingId) ==
    LET buildings == readRegistry(st).value
    IN  IF Has(buildings, buildingId)
        THEN [found |-> TRUE, value |-> buildings.rec[buildingId]]
        ELSE [found |-> FALSE, value |-> EmptyFn]

HasTruthy(r, f) == f \in DOMAIN r /\ Truthy(r[f])

\* mutant: the record is replaced by one that holds only the model path
StoredOnUpdate_replace(old, glbPath) == "3dModel" :> glbPath

\* mutant: the model path is not stored
StoredOnUpdate_drop(old, glbPath) == old

\* buildings[buildingId]['3dModel'] = glbPath
StoredOnUpdate(old, glbPath) == ("3dModel" :> glbPath) @@ old

updateBuildingWith3DModel(st, buildingId, glbPath) ==
    LET buildings == readRegistry(st).value
    IN  IF ~Has(buildings, buildingId)
        THEN [threw |-> TRUE, storage |-> st]
        ELSE [threw |-> FALSE,
              storage |-> ValidStorage(Assign(buildings, buildingId,
                              StoredOnUpdate(buildings.rec[buildingId], glbPath)))]

\* mutant: no building is taken to have a model
buildingHas3DModel_never(st, buildingId) == FALSE

buildingHas3DModel(st, buildingId) ==
    LET buildings == readRegistry(st).value
    IN  Has(buildings, buildingId) /\ HasTruthy(buildings.rec[buildingId], "3dModel")

\* mutant: the model path is not looked at
getBuildingsWithout3DModels_any(st) ==
    LET buildings == readRegistry(st).value
    IN  SelectSeq(buildings.order, LAMBDA id : HasTruthy(buildings.rec[id], "refImage"))

getBuildingsWithout3DModels(st) ==
    LET buildings == readRegistry(st).value
    IN  SelectSeq(buildings.order,
                  LAMBDA id : HasTruthy(buildings.rec[id], "refImage")
                              /\ ~HasTruthy(buildings.rec[id], "3dModel"))

getAllBuildingsWithRefImages(st) ==
    LET buildings == readRegistry(st).value
    IN  SelectSeq(buildings.order, LAMBDA id : HasTruthy(buildings.rec[id], "refImage"))

\* no function has been called directly
NoCall == [fn |-> "none"]

----------------------------------------------------------------------------
(* retryWithBackoff *)

NoError == [defined |-> FALSE, message |-> <<>>]

Ok(v) == [ok |-> TRUE, value |-> v, message |-> <<>>]
Fail(m) == [ok |-> FALSE, value |-> <<>>, message |-> m]

\* initialDelay * Math.pow(2, attempt - 1)
BackoffDelay(initialDelay, attempt) == initialDelay * 2 ^ (attempt - 1)

\* mutant: waits after the last attempt too
DelaysAfter_always(attempt, maxRetries) == attempt <= maxRetries

\* mutant: never waits
DelaysAfter_never(attempt, maxRetries) == FALSE

\* if (attempt < maxRetries) await delay(...)
DelaysAfter(attempt, maxRetries) == attempt < maxRetries

\* `Failed after ${maxRetries} attempts. Last error: ${lastError?.message || 'Unknown error'}`
ExhaustedMessage(maxRetries, lastError) ==
    <<"Failed after", ToString(maxRetries), "attempts. Last error:">>
    \o (IF lastError.defined /\ Truthy(lastError.message)
        THEN lastError.message ELSE <<"Unknown error">>)

\* mutant: one attempt more than maxRetries
LoopContinues_onceMore(attempt, maxRetries) == attempt <= maxRetries + 1

\* for (let attempt = 1; attempt <= maxRetries; attempt++)
LoopContinues(attempt, maxRetries) == attempt <= maxRetries

\* state of a call before its first attempt
RetryEnter(maxRetries, initialDelay) ==
    LET go == LoopContinues(1, maxRetries)
    IN  [maxRetries |-> maxRetries, initialDelay |-> initialDelay, attempt |-> 1,
         lastError |-> NoError, invoked |-> 0, delays |-> <<>>,
         status |-> IF go THEN "running" ELSE "thrown",
         value |-> <<>>,
         error |-> IF go THEN <<>> ELSE ExhaustedMessage(maxRetries, NoError)]

\* one iteration of the loop: fn() ended as `out`
RetryAttempt(r, out) ==
    IF out.ok
    THEN [r EXCEPT !.invoked = @ + 1, !.status = "returned", !.value = out.value]
    ELSE LET caught == [r EXCEPT !.invoked = @ + 1,
                                 !.lastError = [defined |-> TRUE, message |-> out.message]]
             waited == IF DelaysAfter(r.attempt, r.maxRetries)
                       THEN [caught EXCEPT !.delays =
                                Append(@, BackoffDelay(r.initialDelay, r.attempt))]
                       ELSE caught
             next   == [waited EXCEPT !.attempt = @ + 1]
         IN  IF LoopContinues(next.attempt, next.maxRetries)
             THEN next
             ELSE [next EXCEPT !.status = "thrown",
                               !.error = ExhaustedMessage(next.maxRetries, next.lastError)]

RetryIdle == [maxRetries |-> 0, initialDelay |-> 0, attempt |-> 0, lastError |-> NoError,
              invoked |-> 0, delays |-> <<>>, status |-> "idle",
              value |-> <<>>, error |-> <<>>]

----------------------------------------------------------------------------
(* Locals of Step 2 while generate-3d-models is not running *)

\* no status has been queried yet
NoStatus == [requestId |-> 0, status |-> "", result |-> "none", error |-> <<>>,
             queue_position |-> -1, downloaded |-> FALSE, kind |-> "",
             written |-> "none"]

\* sweep: the entries the for loop has still to visit; atStart, polled, last: the
\* pending map when the current sweep began, the requestIds queried in it so far, and
\* the latest answer of check3DModelStatus (with whether downloadGLB then succeeded);
\* now: Date.now() in ms since the script started, advanced by the timed pauses
NoStage2 == [buildingIds |-> <<>>, building |-> EmptyFn, queuedJobs |-> <<>>,
             pending |-> <<>>, sweep |-> <<>>, queuePositions |-> <<>>,
             results |-> <<>>, interval |-> 0, sweeps |-> 0,
             atStart |-> <<>>, polled |-> <<>>, last |-> NoStatus, now |-> 0,
             before |-> [completed |-> {}, interrupted |-> FALSE]]

\* history kept from one run of generate-3d-models to the next: the buildings whose
\* jobs ended with a success result in the runs before, and whether the run just
\* before was stopped
CarriedOver(st, stopped) ==
    [NoStage2 EXCEPT !.before =
        [completed |-> st.before.completed \cup
                         {st.results[k].buildingId :
                             k \in {j \in 1..Len(st.results) :
                                       st.results[j].status = "success"}},
         interrupted |-> stopped]]

----------------------------------------------------------------------------
(* Step 1: generate-assets *)

\* parseInt(process.env.RATE_LIMIT_DELAY_MS || '2000', 10)
RateLimitDelayMs == 2000

\* what the Places lookup can produce: no details at all, or a result with a name
NoDetails == [found |-> FALSE, name |-> <<>>]
Details(n) == [found |-> TRUE, name |-> n]
PlaceNames == {<<"A", " ", "b">>, <<"a", "!", "B", "!">>, <<"C">>}
DetailsResponses == {NoDetails, Details(<<>>)} \cup {Details(n) : n \in PlaceNames}

\* what the metadata model can answer
GoodMetadata == [category |-> "landmark", footprint |-> [width |-> 2, height |-> 3],
                 name |-> <<"A", " ", "b">>, icon |-> <<"i">>]
OddMetadata == [category |-> "castle", footprint |-> [width |-> 9, height |-> 0],
                name |-> <<"Z">>, icon |-> <<"i">>]
NoIconMetadata == [category |-> "civic", footprint |-> [width |-> 1, height |-> 1],
                   name |-> <<"C">>]
InferResponses ==
    {[kind |-> "error", json |-> EmptyFn], [kind |-> "notext", json |-> EmptyFn],
     [kind |-> "nojson", json |-> EmptyFn]}
    \cup {[kind |-> "json", json |-> m] : m \in {GoodMetadata, OddMetadata, NoIconMetadata}}

\* !metadata.category || !metadata.footprint || !metadata.name || !metadata.icon
MetadataInvalid(m) ==
    \/ "category" \notin DOMAIN m \/ m.category = ""
    \/ "footprint" \notin DOMAIN m
    \/ "name" \notin DOMAIN m \/ ~Truthy(m.name)
    \/ "icon" \notin DOMAIN m \/ ~Truthy(m.icon)

\* retryWithBackoff(generateContent, 3, 1000)
InferMaxRetries == 3
InferInitialDelay == 1000
\* retryWithBackoff(generateRefImage, 3, 2000)
SynthMaxRetries == 3
SynthInitialDelay == 2000

\* the closure generateContent of inferMetadata on one answer of the model
generateContent(resp) ==
    CASE resp.kind = "error"  -> Fail(<<"metadata service error">>)
      [] resp.kind = "notext" -> Fail(<<"Gemini did not return a response">>)
      [] resp.kind = "nojson" -> Fail(<<"Could not extract JSON from Gemini response">>)
      [] OTHER ->
           IF MetadataInvalid(resp.json)
           THEN Fail(<<"Invalid metadata structure from Gemini">>)
           ELSE Ok(resp.json)

SynthResponses == {"error", "noimage", "image"}

\* the closure generateRefImage of generateIsometricSprite on one answer of the model
generateRefImage(resp) ==
    CASE resp = "error"   -> Fail(<<"image service error">>)
      [] resp = "noimage" -> Fail(<<"Gemini did not return image data.">>)
      [] OTHER            -> Ok("new")

\* const skipExisting = forceRegenerate ? false : options.skipExisting
EffectiveSkipExisting_ignoreForce(forceRegenerate, optSkipExisting) == optSkipExisting

EffectiveSkipExisting(forceRegenerate, optSkipExisting) ==
    IF forceRegenerate THEN FALSE ELSE optSkipExisting

\* mutant: any details object counts as a name
NameObtained_lenient(placeDetails) == placeDetails.found

\* if (placeDetails?.name)
NameObtained(placeDetails) == placeDetails.found /\ Truthy(placeDetails.name)

\* && short-circuits: buildingExists is awaited only when the first two operands hold
ExistenceChecked(config) == ~config.forceRegenerate /\ config.skipExisting

\* !config.forceRegenerate && config.skipExisting && (await buildingExists(buildingId))
ShouldSkip_never(config, exists) == FALSE

ShouldSkip(config, exists) ==
    ~config.forceRegenerate /\ config.skipExisting /\ exists

\* mutant: an existing file is overwritten in every mode
saveSprite_overwrite(fs, spriteBuffer, filename, skipExisting) ==
    [threw |-> FALSE, files |-> (filename :> spriteBuffer) @@ fs, message |-> <<>>]

\* saveSprite of shared/fileManager
saveSprite(fs, spriteBuffer, filename, skipExisting) ==
    IF filename \in DOMAIN fs /\ skipExisting
    THEN [threw |-> TRUE, files |-> fs,
          message |-> <<"File exists and skip-existing flag is set">>]
    ELSE [threw |-> FALSE, files |-> (filename :> spriteBuffer) @@ fs, message |-> <<>>]

NoCalls == [resolve |-> 0, details |-> 0, exists |-> 0, capture |-> 0, infer |-> 0,
            synth |-> 0, save |-> 0, fileWrites |-> 0, registryWrites |-> 0]

NoLocals == [address |-> 0, placeName |-> <<>>, buildingId |-> <<>>,
             metadata |-> EmptyFn, refImageBuffer |-> "", refImagePath |-> <<>>]

SkippedResult(address, buildingId) ==
    [address |-> address, status |-> "skipped", buildingId |-> buildingId]

SuccessResult(address, buildingId, refImagePath) ==
    [address |-> address, status |-> "success", buildingId |-> buildingId,
     refImagePath |-> refImagePath]

FailedResult(address, errorMessage) ==
    [address |-> address, status |-> "failed", error |-> errorMessage]

\* mutant: equal results are counted once
Count_distinct(rs, st) == Cardinality({rs[k] : k \in {j \in 1..Len(rs) : rs[j].status = st}})

\* saveResults of shared/fileManager
Count(rs, st) == Cardinality({k \in 1..Len(rs) : rs[k].status = st})

saveResults(rs) ==
    [written |-> TRUE, total |-> Len(rs), successful |-> Count(rs, "success"),
     failed |-> Count(rs, "failed"), skipped |-> Count(rs, "skipped"), results |-> rs]

NoSummary == [written |-> FALSE, total |-> 0, successful |-> 0, failed |-> 0,
              skipped |-> 0, results |-> <<>>]

\* the BuildingDefinition built at "Step 7" of processAddress
BuildingDefinitionOf(c) ==
    [id |-> c.buildingId, name |-> c.metadata.name, category |-> c.metadata.category,
     footprint |-> c.metadata.footprint, refImage |-> c.refImagePath,
     icon |-> c.metadata.icon, supportsRotation |-> TRUE]

s1run == <<opts, addresses, idx, cur, results, calls, pre, log, summary, exitCode, runs>>

\* processAddress(addresses[k]) is entered
BeginItem(k, addrs) ==
    /\ idx' = k
    /\ cur' = [NoLocals EXCEPT !.address = addrs[k]]
    /\ calls' = NoCalls
    /\ pre' = [storage |-> storage, files |-> files]
    /\ rt' = RetryIdle
    /\ pc' = "geocode"

\* mutant: the error is not caught and ends the run
Catch_rethrow(errorMessage) ==
    /\ results' = results
    /\ pc' = "exited"

\* mutant: the failure is recorded but processAddress goes on to "Step 6"
Catch_fallthrough(errorMessage) ==
    /\ results' = Append(results, FailedResult(cur.address, errorMessage))
    /\ pc' = "save"

\* the catch block of processAddress, and results.push in runPipeline
Catch(errorMessage) ==
    /\ results' = Append(results, FailedResult(cur.address, errorMessage))
    /\ pc' = "pushed"

\* runPipeline up to the first processAddress call
StartStage1(startup, n, force, skipOpt) ==
    /\ pc \in {"idle", "exited"}
    /\ runs < MaxRuns
    /\ runs' = runs + 1
    /\ opts' = [script |-> "generate-assets", forceRegenerate |-> force,
                skipExisting |-> EffectiveSkipExisting(force, skipOpt),
                buildingId |-> <<>>]
    /\ results' = <<>>
    /\ summary' = NoSummary
    /\ api' = NoCall
    /\ s2' = NoStage2
    /\ UNCHANGED <<storage, files, glbs>>
    /\ IF startup # "ok" \/ n = 0
       THEN /\ addresses' = <<>>
            /\ log' = <<>>
            /\ idx' = 0
            /\ cur' = NoLocals
            /\ calls' = NoCalls
            /\ pre' = [storage |-> storage, files |-> files]
            /\ rt' = RetryIdle
            /\ pc' = "exited"
            /\ exitCode' = 1
       ELSE /\ addresses' = [k \in 1..n |-> k]
            /\ log' = << <<"item", 1>> >>
            /\ BeginItem(1, [k \in 1..n |-> k])
            /\ exitCode' = -1

Geocode(ok) ==
    /\ pc = "geocode"
    /\ calls' = [calls EXCEPT !.resolve = @ + 1]
    /\ IF ok
       THEN /\ pc' = "details"
            /\ UNCHANGED results
       ELSE Catch(<<"Geocoding failed">>)
    /\ UNCHANGED <<glbs, s2, storage, files, api, rt, opts, addresses, idx, cur, pre, log,
                   summary, exitCode, runs>>

FetchDetails(resp) ==
    /\ pc = "details"
    /\ calls' = [calls EXCEPT !.details = @ + 1,
                               !.exists = IF NameObtained(resp) /\ ExistenceChecked(opts)
                                          THEN @ + 1 ELSE @]
    /\ IF ~NameObtained(resp)
       THEN /\ Catch(<<"Place details unavailable: Name is required">>)
            /\ UNCHANGED cur
       ELSE LET buildingId == generateBuildingId(resp.name)
            IN  /\ cur' = [cur EXCEPT !.placeName = resp.name, !.buildingId = buildingId]
                /\ IF ShouldSkip(opts, buildingExists(storage, buildingId))
                   THEN /\ results' = Append(results, SkippedResult(cur.address, buildingId))
                        /\ pc' = "pushed"
                   ELSE /\ pc' = "capture"
                        /\ UNCHANGED results
    /\ UNCHANGED <<glbs, s2, storage, files, api, rt, opts, addresses, idx, pre, log,
                   summary, exitCode, runs>>

Capture(ok) ==
    /\ pc = "capture"
    /\ calls' = [calls EXCEPT !.capture = @ + 1]
    /\ IF ok
       THEN /\ pc' = "infer"
            /\ rt' = RetryEnter(InferMaxRetries, InferInitialDelay)
            /\ UNCHANGED results
       ELSE /\ Catch(<<"capture error">>)
            /\ UNCHANGED rt
    /\ UNCHANGED <<glbs, s2, storage, files, api, opts, addresses, idx, cur, pre, log,
                   summary, exitCode, runs>>

\* one attempt of retryWithBackoff(generateContent, 3, 1000) in inferMetadata
InferAttempt(resp) ==
    /\ pc = "infer"
    /\ rt.status = "running"
    /\ calls' = [calls EXCEPT !.infer = @ + 1]
    /\ LET r == RetryAttempt(rt, generateContent(resp))
       IN  CASE r.status = "returned" ->
                  /\ cur' = [cur EXCEPT !.metadata = r.value]
                  /\ rt' = RetryEnter(SynthMaxRetries, SynthInitialDelay)
                  /\ pc' = "synth"
                  /\ UNCHANGED results
             [] r.status = "thrown" ->
                  /\ rt' = r
                  /\ Catch(r.error)
                  /\ UNCHANGED cur
             [] OTHER ->
                  /\ rt' = r
                  /\ UNCHANGED <<pc, cur, results>>
    /\ UNCHANGED <<glbs, s2, storage, files, api, opts, addresses, idx, pre, log,
                   summary, exitCode, runs>>

\* one attempt of retryWithBackoff(generateRefImage, 3, 2000) in generateIsometricSprite
SynthAttempt(resp) ==
    /\ pc = "synth"
    /\ rt.status = "running"
    /\ calls' = [calls EXCEPT !.synth = @ + 1]
    /\ LET r == RetryAttempt(rt, generateRefImage(resp))
       IN  CASE r.status = "returned" ->
                  /\ cur' = [cur EXCEPT !.refImageBuffer = r.value]
                  /\ rt' = r
                  /\ pc' = "save"
                  /\ UNCHANGED results
             [] r.status = "thrown" ->
                  /\ rt' = r
                  /\ Catch(r.error)
                  /\ UNCHANGED cur
             [] OTHER ->
                  /\ rt' = r
                  /\ UNCHANGED <<pc, cur, results>>
    /\ UNCHANGED <<glbs, s2, storage, files, api, opts, addresses, idx, pre, log,
                   summary, exitCode, runs>>

\* mutant: the building is put into the registry before its image is saved
Save_registerFirst ==
    /\ pc = "save"
    /\ LET filename == generateFilename([name |-> cur.placeName])
           sv == saveSprite(files, cur.refImageBuffer, filename, opts.skipExisting)
       IN  /\ storage' = addBuildingToRegistry(storage,
                             BuildingDefinitionOf([cur EXCEPT !.refImagePath = filename]))
           /\ IF sv.threw
              THEN /\ Catch(sv.message)
                   /\ calls' = [calls EXCEPT !.save = @ + 1]
                   /\ UNCHANGED <<files, cur>>
              ELSE /\ files' = sv.files
                   /\ calls' = [calls EXCEPT !.save = @ + 1, !.fileWrites = @ + 1]
                   /\ cur' = [cur EXCEPT !.refImagePath = filename]
                   /\ pc' = "register"
                   /\ UNCHANGED results
    /\ UNCHANGED <<glbs, s2, api, rt, opts, addresses, idx, pre, log,
                   summary, exitCode, runs>>

\* "Step 6": generateFilename and saveSprite
Save ==
    /\ pc = "save"
    /\ LET filename == generateFilename([name |-> cur.placeName])
           sv == saveSprite(files, cur.refImageBuffer, filename, opts.skipExisting)
       IN  IF sv.threw
           THEN /\ Catch(sv.message)
                /\ calls' = [calls EXCEPT !.save = @ + 1]
                /\ UNCHANGED <<files, cur>>
           ELSE /\ files' = sv.files
                /\ calls' = [calls EXCEPT !.save = @ + 1, !.fileWrites = @ + 1]
                /\ cur' = [cur EXCEPT !.refImagePath = filename]
                /\ pc' = "register"
                /\ UNCHANGED results
    /\ UNCHANGED <<glbs, s2, storage, api, rt, opts, addresses, idx, pre, log,
                   summary, exitCode, runs>>

\* "Step 7" and "Step 8": build the definition, addBuildingToRegistry, return success
Register ==
    /\ pc = "register"
    /\ storage' = addBuildingToRegistry(storage, BuildingDefinitionOf(cur))
    /\ calls' = [calls EXCEPT !.registryWrites = @ + 1]
    /\ results' = Append(results,
                      SuccessResult(cur.address, cur.buildingId, cur.refImagePath))
    /\ pc' = "pushed"
    /\ UNCHANGED <<glbs, s2, files, api, rt, opts, addresses, idx, cur, pre, log,
                   summary, exitCode, runs>>

\* mutant: no pause after an item that failed
NextAddress_failFast ==
    /\ pc = "pushed"
    /\ opts.script = "generate-assets"
    /\ idx < Len(addresses)
    /\ log' = IF results[idx].status = "failed"
              THEN Append(log, <<"item", idx + 1>>)
              ELSE log \o << <<"delay", RateLimitDelayMs>>, <<"item", idx + 1>> >>
    /\ BeginItem(idx + 1, addresses)
    /\ UNCHANGED <<glbs, s2, storage, files, api, opts, addresses, results, summary, exitCode, runs>>

\* if (i < addresses.length - 1) await delay(rateLimitDelayMs); then the next iteration
NextAddress ==
    /\ pc = "pushed"
    /\ opts.script = "generate-assets"
    /\ idx < Len(addresses)
    /\ log' = log \o << <<"delay", RateLimitDelayMs>>, <<"item", idx + 1>> >>
    /\ BeginItem(idx + 1, addresses)
    /\ UNCHANGED <<glbs, s2, storage, files, api, opts, addresses, results, summary, exitCode, runs>>

\* after the loop: saveResults, and the script ends
FinishStage1 ==
    /\ pc = "pushed"
    /\ opts.script = "generate-assets"
    /\ idx = Len(addresses)
    /\ summary' = saveResults(results)
    /\ pc' = "exited"
    /\ exitCode' = 0
    /\ UNCHANGED <<glbs, s2, storage, files, api, rt, opts, addresses, idx, cur, results, calls,
                   pre, log, runs>>

Stage1Step ==
    \/ \E ok \in BOOLEAN : Geocode(ok)
    \/ \E resp \in DetailsResponses : FetchDetails(resp)
    \/ \E ok \in BOOLEAN : Capture(ok)
    \/ \E resp \in InferResponses : InferAttempt(resp)
    \/ \E resp \in SynthResponses : SynthAttempt(resp)
    \/ Save
    \/ Register
    \/ NextAddress
    \/ FinishStage1

----------------------------------------------------------------------------
(* Step 2: generate-3d-models *)

\* const INITIAL_POLL_INTERVAL_MS = 5000
INITIAL_POLL_INTERVAL_MS == 5000
\* parseInt(process.env.UPLOAD_DELAY_MS || '1000', 10)
UploadDelayMs == 1000

Min(a, b) == IF a < b THEN a ELSE b
Max(a, b) == IF a > b THEN a ELSE b
MinOf(q) == CHOOSE m \in {q[k] : k \in 1..Len(q)} : \A k \in 1..Len(q) : m <= q[k]

\* mutant: the first reported position instead of the smallest
PollInterval_first(queuePositions) ==
    IF Len(queuePositions) > 0
    THEN Min(Max(queuePositions[1] * 1000, 2000), 30000)
    ELSE INITIAL_POLL_INTERVAL_MS

\* the adaptive polling interval computed after a sweep
PollInterval(queuePositions) ==
    IF Len(queuePositions) > 0
    THEN Min(Max(MinOf(queuePositions) * 1000, 2000), 30000)
    ELSE INITIAL_POLL_INTERVAL_MS

\* what the queue provider can answer to one status check (queuePosition -1: none given)
ProviderAnswer(kind, status, data, queuePosition) ==
    [kind |-> kind, status |-> status, data |-> data, queuePosition |-> queuePosition]

ProviderAnswers ==
    {ProviderAnswer("statusThrows", "", "none", -1),
     ProviderAnswer("resultThrows", "COMPLETED", "none", -1),
     ProviderAnswer("answer", "COMPLETED", "none", -1),
     ProviderAnswer("answer", "COMPLETED", "nourl", -1),
     ProviderAnswer("answer", "COMPLETED", "url", -1),
     ProviderAnswer("answer", "FAILED", "none", -1),
     ProviderAnswer("answer", "IN_PROGRESS", "none", -1),
     ProviderAnswer("answer", "IN_QUEUE", "none", 1),
     ProviderAnswer("answer", "IN_QUEUE", "none", 3),
     ProviderAnswer("answer", "IN_QUEUE", "none", 50)}

\* error.message of what fal.queue.status or fal.queue.result threw
ThrownMessage(answer) ==
    IF answer.kind = "statusThrows" THEN <<"status request failed">>
    ELSE <<"result request failed">>

\* mutant: an error of the status or result request is taken for a job still running
check3DModelStatus_lenient(answer) ==
    IF answer.kind \in {"statusThrows", "resultThrows"}
    THEN [status |-> "IN_PROGRESS", result |-> "none", error |-> <<>>,
          queue_position |-> -1]
    ELSE [status |-> answer.status,
          result |-> IF answer.status = "COMPLETED" THEN answer.data ELSE "none",
          error |-> <<>>, queue_position |-> answer.queuePosition]

\* check3DModelStatus of falService: errors become status FAILED
check3DModelStatus(answer) ==
    IF answer.kind \in {"statusThrows", "resultThrows"}
    THEN [status |-> "FAILED", result |-> "none", error |-> ThrownMessage(answer),
          queue_position |-> -1]
    ELSE [status |-> answer.status,
          result |-> IF answer.status = "COMPLETED" THEN answer.data ELSE "none",
          error |-> <<>>, queue_position |-> answer.queuePosition]

\* saveGLBFile returns the path of `${buildingId}.glb`
GlbPathOf(buildingId) == buildingId \o <<".glb">>

Skipped2(buildingId) == [buildingId |-> buildingId, status |-> "skipped"]
Failed2(buildingId, errorMessage) ==
    [buildingId |-> buildingId, status |-> "failed", error |-> errorMessage]

\* mutant: a job that could not be processed is reported as a success
FailedJob_asSuccess(job, errorMessage) ==
    [buildingId |-> job.buildingId, status |-> "success", error |-> errorMessage,
     requestId |-> job.requestId]

FailedJob(job, errorMessage) ==
    [buildingId |-> job.buildingId, status |-> "failed", error |-> errorMessage,
     requestId |-> job.requestId]
\* Math.floor((Date.now() - job.submitTime) / 1000)
Duration(now, submitTime) == (now - submitTime) \div 1000

SuccessJob(job, glbPath, now) ==
    [buildingId |-> job.buildingId, status |-> "success", glbPath |-> glbPath,
     requestId |-> job.requestId, duration |-> Duration(now, job.submitTime)]

\* mutant: only the first job is kept
MapOfJobs_first(jobs) == IF jobs = <<>> THEN <<>> ELSE <<jobs[1]>>

\* new Map(queuedJobs.map((job) => [job.requestId, job])): a later job replaces an
\* earlier one with the same requestId, at the earlier one's place
RECURSIVE MapOfJobs(_)
MapOfJobs(jobs) ==
    IF jobs = <<>> THEN <<>>
    ELSE LET front == MapOfJobs(SubSeq(jobs, 1, Len(jobs) - 1))
             last  == jobs[Len(jobs)]
         IN  IF \E k \in 1..Len(front) : front[k].requestId = last.requestId
             THEN [k \in 1..Len(front) |->
                     IF front[k].requestId = last.requestId THEN last ELSE front[k]]
             ELSE Append(front, last)

\* mutant: the entry is not deleted
DeleteJob_keep(pending, requestId) == pending

\* pending.delete(requestId)
DeleteJob(pending, requestId) == SelectSeq(pending, LAMBDA j : j.requestId # requestId)

\* mutant: deleting the current entry makes the iteration jump over the next one
StillToVisit_skip(sweep, requestId) == IF sweep = <<>> THEN sweep ELSE Tail(sweep)

\* for (... of pending.entries()): after pending.delete(requestId) the iterator goes on
\* with the entries after the current one that are still in the map
StillToVisit(sweep, requestId) == SelectSeq(sweep, LAMBDA j : j.requestId # requestId)

\* runPipeline of generate-3d-models up to the first iteration of Phase 1
StartStage2(envOK, buildingIdOpt, force) ==
    /\ pc \in {"idle", "exited"}
    /\ runs < MaxRuns
    /\ runs' = runs + 1
    /\ opts' = [script |-> "generate-3d-models", forceRegenerate |-> force,
                skipExisting |-> FALSE, buildingId |-> buildingIdOpt]
    /\ results' = <<>>
    /\ summary' = NoSummary
    /\ api' = NoCall
    /\ log' = <<>>
    /\ addresses' = <<>>
    /\ cur' = NoLocals
    /\ calls' = NoCalls
    /\ pre' = [storage |-> storage, files |-> files]
    /\ rt' = RetryIdle
    /\ UNCHANGED <<storage, files, glbs>>
    /\ LET buildingIds ==
              IF Truthy(buildingIdOpt) THEN <<buildingIdOpt>>
              ELSE IF force THEN getAllBuildingsWithRefImages(storage)
              ELSE getBuildingsWithout3DModels(storage)
       IN  IF ~envOK
           THEN /\ s2' = CarriedOver(s2, exitCode = 130)
                /\ idx' = 0
                /\ pc' = "exited"
                /\ exitCode' = 1
           ELSE IF Len(buildingIds) = 0
           THEN /\ s2' = CarriedOver(s2, exitCode = 130)
                /\ idx' = 0
                /\ pc' = "exited"
                /\ exitCode' = 0
           ELSE /\ s2' = [CarriedOver(s2, exitCode = 130)
                             EXCEPT !.buildingIds = buildingIds]
                /\ idx' = 1
                /\ pc' = "p1check"
                /\ exitCode' = -1

\* pollAndProcessPhase is entered with the queued jobs
EnterPhase2(jobs, now) ==
    IF Len(jobs) = 0
    THEN /\ pc' = "p2return"
         /\ s2' = [s2 EXCEPT !.queuedJobs = jobs, !.building = EmptyFn, !.now = now]
    ELSE /\ pc' = "p2poll"
         /\ s2' = [s2 EXCEPT !.queuedJobs = jobs, !.building = EmptyFn, !.now = now,
                             !.pending = MapOfJobs(jobs), !.sweep = MapOfJobs(jobs),
                             !.atStart = MapOfJobs(jobs),
                             !.queuePositions = <<>>, !.sweeps = 1]

\* mutant: polling starts as soon as one job is queued
P1Advance_eager(rs, jobs, lg, now) ==
    /\ results' = rs
    /\ log' = lg
    /\ IF idx < Len(s2.buildingIds) /\ jobs = <<>>
       THEN /\ idx' = idx + 1
            /\ pc' = "p1check"
            /\ s2' = [s2 EXCEPT !.queuedJobs = jobs, !.building = EmptyFn, !.now = now]
       ELSE /\ idx' = idx
            /\ EnterPhase2(jobs, now)

\* mutant: a failed item ends the Phase 1 loop
P1Advance_abort(rs, jobs, lg, now) ==
    /\ results' = rs
    /\ log' = lg
    /\ IF idx < Len(s2.buildingIds) /\ (rs = results \/ rs[Len(rs)].status # "failed")
       THEN /\ idx' = idx + 1
            /\ pc' = "p1check"
            /\ s2' = [s2 EXCEPT !.queuedJobs = jobs, !.building = EmptyFn, !.now = now]
       ELSE /\ idx' = idx
            /\ EnterPhase2(jobs, now)

\* the end of one iteration of the Phase 1 loop
P1Advance(rs, jobs, lg, now) ==
    /\ results' = rs
    /\ log' = lg
    /\ IF idx < Len(s2.buildingIds)
       THEN /\ idx' = idx + 1
            /\ pc' = "p1check"
            /\ s2' = [s2 EXCEPT !.queuedJobs = jobs, !.building = EmptyFn, !.now = now]
       ELSE /\ idx' = idx
            /\ EnterPhase2(jobs, now)

s2frame == <<storage, files, glbs, api, rt, opts, addresses, cur, calls, pre,
             summary, exitCode, runs>>

\* Phase 1, one building: the skip check, getBuilding and the refImage check
P1Check ==
    /\ pc = "p1check"
    /\ LET buildingId == s2.buildingIds[idx]
           building == getBuilding(storage, buildingId)
       IN  IF ~opts.forceRegenerate /\ buildingHas3DModel(storage, buildingId)
           THEN P1Advance(Append(results, Skipped2(buildingId)), s2.queuedJobs, log,
                          s2.now)
           ELSE IF ~building.found
           THEN P1Advance(Append(results,
                    Failed2(buildingId, <<"Building">> \o buildingId
                                        \o <<"not found in registry">>)),
                    s2.queuedJobs, log, s2.now)
           ELSE IF ~HasTruthy(building.value, "refImage")
           THEN P1Advance(Append(results,
                    Failed2(buildingId, <<"Building">> \o buildingId
                                        \o <<"has no reference image">>)),
                    s2.queuedJobs, log, s2.now)
           ELSE /\ pc' = "p1upload"
                /\ s2' = [s2 EXCEPT !.building = building.value]
                /\ UNCHANGED <<idx, results, log>>
    /\ UNCHANGED s2frame

\* Phase 1, one building: uploadImage
P1Upload(ok) ==
    /\ pc = "p1upload"
    /\ LET buildingId == s2.buildingIds[idx]
           called == Append(log, <<"upload", buildingId>>)
       IN  IF s2.building.refImage \in DOMAIN files /\ ok
           THEN /\ pc' = "p1submit"
                /\ log' = called
                /\ UNCHANGED <<idx, results, s2>>
           ELSE P1Advance(Append(results, Failed2(buildingId, <<"upload failed">>)),
                          s2.queuedJobs, called, s2.now)
    /\ UNCHANGED s2frame

\* Phase 1, one building: submit3DModelGeneration, queuedJobs.push and the upload delay
P1Submit(ok) ==
    /\ pc = "p1submit"
    /\ LET buildingId == s2.buildingIds[idx]
           called == Append(log, <<"submit", buildingId>>)
           job == [requestId |-> Len(s2.queuedJobs) + 1, buildingId |-> buildingId,
                   submitTime |-> s2.now]
       IN  IF ok
           THEN IF idx < Len(s2.buildingIds)
                THEN P1Advance(results, Append(s2.queuedJobs, job),
                               Append(called, <<"delay", UploadDelayMs>>),
                               s2.now + UploadDelayMs)
                ELSE P1Advance(results, Append(s2.queuedJobs, job), called, s2.now)
           ELSE P1Advance(Append(results, Failed2(buildingId, <<"submit failed">>)),
                          s2.queuedJobs, called, s2.now)
    /\ UNCHANGED s2frame

\* what the two file writes that follow a download can do: both succeed; saveGLBFile
\* rejects and no .glb is left; fs.writeFile of the registry rejects (the file cannot
\* be opened for writing) and the registry stays as it was
WriteOutcomes == {"ok", "saveFails", "updateFails"}

\* Phase 2: the loop body for the next pending job of the sweep
P2Poll(answer, downloadOK, writes) ==
    /\ pc = "p2poll"
    /\ s2.sweep # <<>>
    /\ LET job == Head(s2.sweep)
           statusResult == check3DModelStatus(answer)
           glbPath == GlbPathOf(job.buildingId)
           upd == updateBuildingWith3DModel(storage, job.buildingId, glbPath)
           rest == [s2 EXCEPT !.sweep = Tail(@),
                              !.polled = Append(@, job.requestId),
                              !.last = [requestId |-> job.requestId,
                                        status |-> statusResult.status,
                                        result |-> statusResult.result,
                                        error |-> statusResult.error,
                                        queue_position |-> statusResult.queue_position,
                                        kind |-> answer.kind,
                                        downloaded |->
                                            /\ statusResult.status = "COMPLETED"
                                            /\ statusResult.result = "url"
                                            /\ downloadOK,
                                        written |->
                                            IF /\ statusResult.status = "COMPLETED"
                                               /\ statusResult.result = "url"
                                               /\ downloadOK
                                            THEN writes ELSE "none"]]
           resolved(r) == [rest EXCEPT !.results = Append(@, r),
                                       !.pending = DeleteJob(@, job.requestId),
                                       !.sweep = StillToVisit(@, job.requestId)]
       IN  IF statusResult.status = "COMPLETED" /\ statusResult.result # "none"
           THEN IF statusResult.result = "nourl"
                THEN /\ s2' = resolved(FailedJob(job, <<"No GLB URL in result">>))
                     /\ UNCHANGED <<storage, glbs>>
                ELSE IF ~downloadOK
                THEN /\ s2' = resolved(FailedJob(job, <<"Failed to download GLB">>))
                     /\ UNCHANGED <<storage, glbs>>
                ELSE IF writes = "saveFails"
                THEN /\ s2' = resolved(FailedJob(job, <<"GLB write failed">>))
                     /\ UNCHANGED <<storage, glbs>>
                ELSE IF upd.threw
                THEN /\ glbs' = glbs \cup {glbPath}
                     /\ s2' = resolved(FailedJob(job, <<"Building">> \o job.buildingId
                                                   \o <<"not found in registry">>))
                     /\ UNCHANGED storage
                ELSE IF writes = "updateFails"
                THEN /\ glbs' = glbs \cup {glbPath}
                     /\ s2' = resolved(FailedJob(job, <<"registry write failed">>))
                     /\ UNCHANGED storage
                ELSE /\ glbs' = glbs \cup {glbPath}
                     /\ storage' = upd.storage
                     /\ s2' = resolved(SuccessJob(job, glbPath, s2.now))
           ELSE IF statusResult.status = "FAILED"
           THEN /\ s2' = resolved(FailedJob(job,
                            IF Truthy(statusResult.error) THEN statusResult.error
                            ELSE <<"Unknown error">>))
                /\ UNCHANGED <<storage, glbs>>
           ELSE /\ s2' = IF statusResult.queue_position # -1
                         THEN [rest EXCEPT !.queuePositions =
                                  Append(@, statusResult.queue_position)]
                         ELSE rest
                /\ UNCHANGED <<storage, glbs>>
    /\ UNCHANGED <<files, api, rt, pc, opts, addresses, idx, cur, results, calls, pre,
                   log, summary, exitCode, runs>>

\* mutant: the next sweep goes over every queued job again
P2NextSweep_all ==
    /\ pc = "p2poll"
    /\ s2.sweep = <<>>
    /\ s2.pending # <<>>
    /\ s2.sweeps < MaxSweeps
    /\ s2' = [s2 EXCEPT !.interval = PollInterval(s2.queuePositions),
                        !.sweep = MapOfJobs(s2.queuedJobs), !.queuePositions = <<>>,
                        !.atStart = s2.pending, !.polled = <<>>,
                        !.now = @ + PollInterval(s2.queuePositions),
                        !.sweeps = @ + 1]
    /\ UNCHANGED <<storage, files, glbs, api, rt, pc, opts, addresses, idx, cur, results,
                   calls, pre, log, summary, exitCode, runs>>

\* Phase 2: after the for loop of one sweep, the delay and the next while iteration
P2NextSweep ==
    /\ pc = "p2poll"
    /\ s2.sweep = <<>>
    /\ s2.pending # <<>>
    /\ s2.sweeps < MaxSweeps
    /\ s2' = [s2 EXCEPT !.interval = PollInterval(s2.queuePositions),
                        !.sweep = s2.pending, !.queuePositions = <<>>,
                        !.atStart = s2.pending, !.polled = <<>>,
                        !.now = @ + PollInterval(s2.queuePositions),
                        !.sweeps = @ + 1]
    /\ UNCHANGED <<storage, files, glbs, api, rt, pc, opts, addresses, idx, cur, results,
                   calls, pre, log, summary, exitCode, runs>>

\* Phase 2: the same step once MaxSweeps sweeps have been counted; the counter stays
\* at MaxSweeps, which then stands for "MaxSweeps or more", and the clock is not
\* advanced any further
P2NextSweepAgain ==
    /\ pc = "p2poll"
    /\ s2.sweep = <<>>
    /\ s2.pending # <<>>
    /\ s2.sweeps >= MaxSweeps
    /\ s2' = [s2 EXCEPT !.interval = PollInterval(s2.queuePositions),
                        !.sweep = s2.pending, !.queuePositions = <<>>,
                        !.atStart = s2.pending, !.polled = <<>>]
    /\ UNCHANGED <<storage, files, glbs, api, rt, pc, opts, addresses, idx, cur, results,
                   calls, pre, log, summary, exitCode, runs>>

\* mutant: the while loop is left after one sweep
P2Return_early ==
    /\ pc = "p2poll"
    /\ s2.sweep = <<>>
    /\ pc' = "p2return"
    /\ UNCHANGED <<storage, files, glbs, api, rt, opts, addresses, idx, cur, results,
                   calls, pre, log, summary, exitCode, runs, s2>>

\* Phase 2: pending is empty, pollAndProcessPhase returns
P2Return ==
    /\ pc = "p2poll"
    /\ s2.sweep = <<>>
    /\ s2.pending = <<>>
    /\ pc' = "p2return"
    /\ UNCHANGED <<storage, files, glbs, api, rt, opts, addresses, idx, cur, results,
                   calls, pre, log, summary, exitCode, runs, s2>>

\* allResults, saveResults, and the script ends
FinishStage2 ==
    /\ pc = "p2return"
    /\ summary' = saveResults(results \o s2.results)
    /\ pc' = "exited"
    /\ exitCode' = 0
    /\ UNCHANGED <<storage, files, glbs, api, rt, opts, addresses, idx, cur, results,
                   calls, pre, log, runs, s2>>

Stage2Step ==
    \/ P1Check
    \/ \E ok \in BOOLEAN : P1Upload(ok)
    \/ \E ok \in BOOLEAN : P1Submit(ok)
    \/ \E answer \in ProviderAnswers, downloadOK \in BOOLEAN, writes \in WriteOutcomes :
          P2Poll(answer, downloadOK, writes)
    \/ P2NextSweep
    \/ P2Return
    \/ FinishStage2

----------------------------------------------------------------------------
(* States the store and the output directory can be in when a script starts *)

SeedName == <<"A", " ", "b">>
SeedId == generateBuildingId(SeedName)
SeedFile == generateFilename([name |-> SeedName])

\* the definition Step 1 registers for SeedName
SeedDefinition ==
    BuildingDefinitionOf([buildingId |-> SeedId, metadata |-> GoodMetadata,
                          refImagePath |-> SeedFile])

RegisteredStorage == addBuildingToRegistry(AbsentStorage, SeedDefinition)
ModelledStorage ==
    updateBuildingWith3DModel(RegisteredStorage, SeedId, GlbPathOf(SeedId)).storage

SeedStates ==
    {[storage |-> AbsentStorage,     files |-> EmptyFn,              glbs |-> {}],
     [storage |-> AbsentStorage,     files |-> (SeedFile :> "old"),  glbs |-> {}],
     [storage |-> MalformedStorage,  files |-> (SeedFile :> "old"),  glbs |-> {}],
     [storage |-> RegisteredStorage, files |-> (SeedFile :> "old"),  glbs |-> {}],
     [storage |-> ModelledStorage,   files |-> (SeedFile :> "old"),
      glbs |-> {GlbPathOf(SeedId)}]}

NoOpts == [script |-> "", forceRegenerate |-> FALSE, skipExisting |-> FALSE,
           buildingId |-> <<>>]

\* nothing is running
Quiescent ==
    /\ api = NoCall
    /\ rt = RetryIdle
    /\ pc = "idle"
    /\ opts = NoOpts
    /\ addresses = <<>>
    /\ idx = 0
    /\ cur = NoLocals
    /\ results = <<>>
    /\ calls = NoCalls
    /\ pre = [storage |-> storage, files |-> files]
    /\ log = <<>>
    /\ summary = NoSummary
    /\ exitCode = -1
    /\ runs = 0
    /\ s2 = NoStage2

----------------------------------------------------------------------------
(* Direct calls of retryWithBackoff *)

InitialDelays == {0, 1000, 1500}
OpOutcomes == {Ok("r1"), Ok("r2"), Fail(<<"boom">>), Fail(<<"bang">>), Fail(<<>>)}

InitRetry ==
    /\ storage = AbsentStorage
    /\ files = EmptyFn
    /\ glbs = {}
    /\ Quiescent

\* retryWithBackoff(fn, maxRetries, initialDelay) is called
RetryCall(maxRetries, initialDelay) ==
    /\ pc = "idle"
    /\ rt.status # "running"
    /\ rt' = RetryEnter(maxRetries, initialDelay)
    /\ api' = [fn |-> "retryWithBackoff", outcomes |-> <<>>]
    /\ UNCHANGED <<storage, files, pc, glbs, s2>>
    /\ UNCHANGED s1run

\* fn() settles as `out` and the loop body runs
RetryOp(out) ==
    /\ pc = "idle"
    /\ rt.status = "running"
    /\ rt' = RetryAttempt(rt, out)
    /\ api' = [api EXCEPT !.outcomes = Append(@, out)]
    /\ UNCHANGED <<storage, files, pc, glbs, s2>>
    /\ UNCHANGED s1run

NextRetry ==
    \/ \E n \in 0..MaxRetriesBound, d \in InitialDelays : RetryCall(n, d)
    \/ \E out \in OpOutcomes : RetryOp(out)

SpecRetry == InitRetry /\ [][NextRetry]_vars

----------------------------------------------------------------------------
(* Direct calls of generateBuildingId *)

SlugAlphabet == {"A", "a", "B", "1", " ", "!", "-"}
SlugNames == UNION {[1..n -> SlugAlphabet] : n \in 0..MaxNameLen}

InitSlug ==
    /\ storage = AbsentStorage
    /\ files = EmptyFn
    /\ glbs = {}
    /\ Quiescent

\* one call per behaviour: the function is pure
ApiSlug(name) ==
    /\ pc = "idle"
    /\ api = NoCall
    /\ api' = [fn |-> "generateBuildingId", name |-> name,
               value |-> generateBuildingId(name),
               filename |-> generateFilename([name |-> name])]
    /\ UNCHANGED <<storage, files, rt, pc, glbs, s2>>
    /\ UNCHANGED s1run

NextSlug == \E name \in SlugNames : ApiSlug(name)

SpecSlug == InitSlug /\ [][NextSlug]_vars

----------------------------------------------------------------------------
(* Direct calls of saveResults *)

\* results as the two scripts build them
ResultValues ==
    {SuccessResult(<<"a1">>, SeedId, SeedFile),
     FailedResult(<<"a2">>, <<"e">>),
     SkippedResult(<<"a3">>, SeedId),
     [buildingId |-> SeedId, status |-> "failed", error |-> <<"e">>, requestId |-> 1]}
ResultLists == UNION {[1..n -> ResultValues] : n \in 0..MaxResults}

InitSummary ==
    /\ storage = AbsentStorage
    /\ files = EmptyFn
    /\ glbs = {}
    /\ Quiescent

\* one call per behaviour: the summary depends on the list only
ApiSaveResults(rs) ==
    /\ pc = "idle"
    /\ api = NoCall
    /\ api' = [fn |-> "saveResults", results |-> rs]
    /\ summary' = saveResults(rs)
    /\ UNCHANGED <<storage, files, rt, pc, glbs, s2, opts, addresses, idx, cur, results,
                   calls, pre, log, exitCode, runs>>

NextSummary == \E rs \in ResultLists : ApiSaveResults(rs)

SpecSummary == InitSummary /\ [][NextSummary]_vars

----------------------------------------------------------------------------
(* Direct calls of the registry functions *)

OtherId == <<"c">>
BuildingIds == {SeedId, OtherId}

\* definitions handed to addBuildingToRegistry
BareDefinition == [id |-> SeedId, name |-> <<"N">>, category |-> "civic",
                   footprint |-> [width |-> 1, height |-> 1]]
OtherDefinition ==
    BuildingDefinitionOf([buildingId |-> OtherId, metadata |-> OddMetadata,
                          refImagePath |-> OtherId \o <<".png">>])
ApiDefinitions == {SeedDefinition, BareDefinition, OtherDefinition}
ApiGlbPaths == {<<"f">>, <<"g">>}

InitRegistry ==
    /\ storage \in {AbsentStorage, MalformedStorage, RegisteredStorage, ModelledStorage}
    /\ files = EmptyFn
    /\ glbs = {}
    /\ Quiescent

apiframe == <<files, glbs, rt, pc, opts, addresses, idx, cur, results, calls, pre,
              log, summary, exitCode, runs, s2>>

ApiRead ==
    /\ api' = [fn |-> "readRegistry", before |-> storage,
               threw |-> readRegistry(storage).threw,
               value |-> readRegistry(storage).value]
    /\ UNCHANGED storage
    /\ UNCHANGED apiframe

ApiAdd(buildingDef) ==
    /\ storage' = addBuildingToRegistry(storage, buildingDef)
    /\ api' = [fn |-> "addBuildingToRegistry", before |-> storage,
               threw |-> FALSE, id |-> buildingDef.id, input |-> buildingDef]
    /\ UNCHANGED apiframe

ApiUpdate(buildingId, glbPath) ==
    /\ storage' = updateBuildingWith3DModel(storage, buildingId, glbPath).storage
    /\ api' = [fn |-> "updateBuildingWith3DModel", before |-> storage,
               threw |-> updateBuildingWith3DModel(storage, buildingId, glbPath).threw,
               id |-> buildingId,
               input |-> [id |-> buildingId] @@ ("3dModel" :> glbPath)]
    /\ UNCHANGED apiframe

ApiExists(buildingId) ==
    /\ api' = [fn |-> "buildingExists", before |-> storage, id |-> buildingId,
               value |-> buildingExists(storage, buildingId)]
    /\ UNCHANGED storage
    /\ UNCHANGED apiframe

ApiWithout3DModels ==
    /\ api' = [fn |-> "getBuildingsWithout3DModels", before |-> storage,
               value |-> getBuildingsWithout3DModels(storage)]
    /\ UNCHANGED storage
    /\ UNCHANGED apiframe

ApiWithRefImages ==
    /\ api' = [fn |-> "getAllBuildingsWithRefImages", before |-> storage,
               value |-> getAllBuildingsWithRefImages(storage)]
    /\ UNCHANGED storage
    /\ UNCHANGED apiframe

NextRegistry ==
    \/ ApiRead
    \/ \E d \in ApiDefinitions : ApiAdd(d)
    \/ \E id \in BuildingIds, g \in ApiGlbPaths : ApiUpdate(id, g)
    \/ \E id \in BuildingIds : ApiExists(id)
    \/ ApiWithout3DModels
    \/ ApiWithRefImages

SpecRegistry == InitRegistry /\ [][NextRegistry]_vars

----------------------------------------------------------------------------
(* Runs of generate-assets *)

InitStage1 ==
    /\ \E s \in SeedStates : storage = s.storage /\ files = s.files /\ glbs = s.glbs
    /\ Quiescent

\* one run, from every seed state
NextStage1 ==
    \/ \E startup \in {"ok", "noenv", "noinput"}, n \in 0..MaxAddresses,
          force \in BOOLEAN, skipOpt \in BOOLEAN :
          runs = 0 /\ StartStage1(startup, n, force, skipOpt)
    \/ Stage1Step

SpecStage1 == InitStage1 /\ [][NextStage1]_vars

----------------------------------------------------------------------------
(* Runs of generate-3d-models, with the poll loop running as long as jobs are pending *)

OtherFile == OtherId \o <<".png">>

\* values of --building-id: not given, a registered id, an unknown id
BuildingIdOptions == {<<>>, SeedId, <<"z">>}

\* stores with two registered buildings, as two generate-assets items leave them
TwoRegisteredStorage == addBuildingToRegistry(RegisteredStorage, OtherDefinition)
OneModelledStorage == addBuildingToRegistry(ModelledStorage, OtherDefinition)

\* stores with a record that has no refImage (the field is optional in
\* BuildingDefinition), alone and next to a building registered by generate-assets
BareStorage == addBuildingToRegistry(AbsentStorage, BareDefinition)
MixedStorage == addBuildingToRegistry(BareStorage, OtherDefinition)

Stage2Seeds ==
    SeedStates \cup
    {[storage |-> BareStorage, files |-> EmptyFn, glbs |-> {}],
     [storage |-> MixedStorage, files |-> (OtherFile :> "old"), glbs |-> {}],
     [storage |-> TwoRegisteredStorage,
      files |-> (SeedFile :> "old") @@ (OtherFile :> "old"), glbs |-> {}],
     [storage |-> OneModelledStorage,
      files |-> (SeedFile :> "old") @@ (OtherFile :> "old"),
      glbs |-> {GlbPathOf(SeedId)}]}

InitStage2 ==
    /\ \E s \in Stage2Seeds : storage = s.storage /\ files = s.files /\ glbs = s.glbs
    /\ Quiescent

\* one run, at most MaxSweeps sweeps
NextStage2 ==
    \/ \E envOK \in BOOLEAN, buildingIdOpt \in BuildingIdOptions, force \in BOOLEAN :
          runs = 0 /\ StartStage2(envOK, buildingIdOpt, force)
    \/ Stage2Step

SpecStage2 == InitStage2 /\ [][NextStage2]_vars

\* one run, sweeping for as long as jobs are pending
NextStage2Live ==
    \/ \E envOK \in BOOLEAN, buildingIdOpt \in BuildingIdOptions, force \in BOOLEAN :
          runs = 0 /\ StartStage2(envOK, buildingIdOpt, force)
    \/ Stage2Step
    \/ P2NextSweepAgain

\* the answers after which a job is resolved: FAILED, or COMPLETED with a result
TerminalAnswers ==
    {a \in ProviderAnswers :
        \/ check3DModelStatus(a).status = "FAILED"
        \/ check3DModelStatus(a).status = "COMPLETED" /\ check3DModelStatus(a).result # "none"}

\* the status check of job r gets a terminal answer
P2PollTerminal(r) ==
    /\ s2.sweep # <<>>
    /\ Head(s2.sweep).requestId = r
    /\ \E answer \in TerminalAnswers, downloadOK \in BOOLEAN, writes \in WriteOutcomes :
          P2Poll(answer, downloadOK, writes)

RequestIds == 1..Cardinality(BuildingIds)

\* the script always takes its next step (every await settles, every delay ends), and a
\* job that is polled again and again is at some poll reported COMPLETED with a result
\* or FAILED
FairStage2 ==
    /\ WF_vars(Stage2Step \/ P2NextSweepAgain)
    /\ \A r \in RequestIds : SF_vars(P2PollTerminal(r))

SpecStage2Live == InitStage2 /\ [][NextStage2Live]_vars /\ FairStage2

----------------------------------------------------------------------------
(* Runs of generate-3d-models that can be interrupted (the process is killed) *)

runningframe == <<files, api, rt, opts, addresses, idx, cur, results, calls, pre, log,
                  summary, runs, s2>>

\* the process is killed while it waits at an await of either phase: nothing is
\* written, the results and the pending map are lost with the process
Interrupt ==
    /\ opts.script = "generate-3d-models"
    /\ pc \in {"p1check", "p1upload", "p1submit", "p2poll", "p2return"}
    /\ pc' = "exited"
    /\ exitCode' = 130   \* ended by SIGINT: 128 + 2
    /\ UNCHANGED <<storage, glbs>>
    /\ UNCHANGED runningframe

\* the process is killed inside fs.writeFile of updateBuildingWith3DModel, which
\* truncates the registry file and then writes it: the file is left cut short, and
\* JSON.parse of it throws
InterruptedWrite ==
    /\ opts.script = "generate-3d-models"
    /\ pc = "p2poll"
    /\ s2.sweep # <<>>
    /\ LET job == Head(s2.sweep)
           glbPath == GlbPathOf(job.buildingId)
       IN  /\ ~updateBuildingWith3DModel(storage, job.buildingId, glbPath).threw
           /\ glbs' = glbs \cup {glbPath}
           /\ storage' = MalformedStorage
    /\ pc' = "exited"
    /\ exitCode' = 130   \* ended by SIGINT: 128 + 2
    /\ UNCHANGED runningframe

\* runs one after the other, each of which can be interrupted
NextInterrupt ==
    \/ \E envOK \in BOOLEAN, buildingIdOpt \in BuildingIdOptions, force \in BOOLEAN :
          StartStage2(envOK, buildingIdOpt, force)
    \/ Stage2Step
    \/ Interrupt
    \/ InterruptedWrite

SpecInterrupt == InitStage2 /\ [][NextInterrupt]_vars

----------------------------------------------------------------------------
(* Two processes that upsert into the same registry file at the same time *)

Writers == {1, 2}

\* the upserts a process can make
WriterOps ==
    {[fn |-> "addBuildingToRegistry", id |-> SeedId, def |-> SeedDefinition],
     [fn |-> "addBuildingToRegistry", id |-> OtherId, def |-> OtherDefinition],
     [fn |-> "updateBuildingWith3DModel", id |-> SeedId, glbPath |-> <<"f">>]}

\* the upsert applied to the file content st
ApplyUpsert(op, st) ==
    IF op.fn = "addBuildingToRegistry" THEN addBuildingToRegistry(st, op.def)
    ELSE updateBuildingWith3DModel(st, op.id, op.glbPath).storage

IdleWriter == [pc |-> "idle", op |-> [fn |-> "none"], snapshot |-> AbsentStorage,
               done |-> 0]

\* per writer: where it is in its upsert, and what readRegistry gave it; history:
\* serial is the file as it would be had every upsert read and written in one step,
\* stale whether some write started from a content that was no longer the file's,
\* upserts the upserts that returned without an error, in the order of their writes
NoWriters == [fn |-> "writers", w |-> [i \in Writers |-> IdleWriter],
              serial |-> AbsentStorage, stale |-> FALSE, upserts |-> <<>>]

InitWriters ==
    /\ storage \in {AbsentStorage, RegisteredStorage}
    /\ files = EmptyFn
    /\ glbs = {}
    /\ api = [NoWriters EXCEPT !.serial = storage]
    /\ rt = RetryIdle
    /\ pc = "idle"
    /\ opts = NoOpts
    /\ addresses = <<>>
    /\ idx = 0
    /\ cur = NoLocals
    /\ results = <<>>
    /\ calls = NoCalls
    /\ pre = [storage |-> storage, files |-> files]
    /\ log = <<>>
    /\ summary = NoSummary
    /\ exitCode = -1
    /\ runs = 0
    /\ s2 = NoStage2

writersframe == <<files, glbs, rt, pc, opts, addresses, idx, cur, results, calls, pre,
                  log, summary, exitCode, runs, s2>>

\* const buildings = await readRegistry()
WriterRead(i, op) ==
    /\ api.w[i].pc = "idle"
    /\ api.w[i].done < MaxUpserts
    /\ api' = [api EXCEPT !.w[i] = [pc |-> "read", op |-> op, snapshot |-> storage,
                                     done |-> @.done]]
    /\ UNCHANGED storage
    /\ UNCHANGED writersframe

\* mutant: the write step reads the file again
WriteBase_locked(i) == storage

\* the content the write step of writer i starts from: what it read before
WriteBase(i) == api.w[i].snapshot

\* buildings[id] = ...; await fs.writeFile(...): the whole mapping is written back
WriterWrite(i) ==
    /\ api.w[i].pc = "read"
    /\ LET op == api.w[i].op
           threw == /\ op.fn = "updateBuildingWith3DModel"
                    /\ updateBuildingWith3DModel(WriteBase(i), op.id, op.glbPath).threw
       IN  /\ storage' = IF threw THEN storage ELSE ApplyUpsert(op, WriteBase(i))
           /\ api' = [api EXCEPT
                        !.w[i] = [IdleWriter EXCEPT !.done = api.w[i].done + 1],
                        !.serial = IF threw THEN @ ELSE ApplyUpsert(op, @),
                        !.stale = @ \/ (~threw /\ WriteBase(i) # storage),
                        !.upserts = IF threw THEN @ ELSE Append(@, op)]
    /\ UNCHANGED writersframe

NextWriters ==
    \/ \E i \in Writers, op \in WriterOps : WriterRead(i, op)
    \/ \E i \in Writers : WriterWrite(i)

SpecWriters == InitWriters /\ [][NextWriters]_vars

----------------------------------------------------------------------------
(* Runs of both scripts against the same store, one at a time, in any order *)

NextRuns ==
    \/ \E startup \in {"ok", "noenv", "noinput"}, n \in 0..MaxAddresses,
          force \in BOOLEAN, skipOpt \in BOOLEAN :
          StartStage1(startup, n, force, skipOpt)
    \/ Stage1Step
    \/ \E envOK \in BOOLEAN, buildingIdOpt \in BuildingIdOptions, force \in BOOLEAN :
          StartStage2(envOK, buildingIdOpt, force)
    \/ Stage2Step

SpecRuns == InitStage1 /\ [][NextRuns]_vars

----------------------------------------------------------------------------
(* Properties of the registry functions, checked under SpecRegistry *)

ApiStoredBefore == readRegistry(api.before).value
ApiStoredAfter == readRegistry(storage).value

\* C1: an upsert (addBuildingToRegistry or updateBuildingWith3DModel) on an id that is
\* already stored overwrites exactly the fields of its input and preserves every stored
\* field that the input lacks.
C1_UpsertMerges ==
    (/\ api.fn \in {"addBuildingToRegistry", "updateBuildingWith3DModel"}
     /\ ~api.threw
     /\ Has(ApiStoredBefore, api.id))
    => /\ Has(ApiStoredAfter, api.id)
       /\ LET old == ApiStoredBefore.rec[api.id]
              new == ApiStoredAfter.rec[api.id]
          IN  /\ \A f \in DOMAIN api.input :
                    f \in DOMAIN new /\ new[f] = api.input[f]
              /\ \A f \in DOMAIN old \ DOMAIN api.input :
                    f \in DOMAIN new /\ new[f] = old[f]

\* C3: reading a store whose content cannot be parsed raises an error.
C3_ReadMalformedFails ==
    (api.fn = "readRegistry" /\ api.before.kind = "malformed") => api.threw

\* C5: reading an absent store gives the empty mapping without an error, so
\* buildingExists is false for every id and the eligibility query is empty.
C5_ReadAbsentIsEmpty ==
    (api.fn # "none" /\ api.before.kind = "absent") =>
        /\ api.fn = "readRegistry" => (~api.threw /\ api.value = EmptyRegistry)
        /\ api.fn = "buildingExists" => api.value = FALSE
        /\ api.fn \in {"getBuildingsWithout3DModels", "getAllBuildingsWithRefImages"}
              => api.value = <<>>

C5_Witness ==
    /\ api.fn = "readRegistry"
    /\ api.before.kind = "absent"
    /\ ~api.threw
    /\ api.value = EmptyRegistry

----------------------------------------------------------------------------
(* Properties of retryWithBackoff, checked under SpecRetry *)

\* the message m occurs inside the message e
Embeds(m, e) == \E i \in 1..(Len(e) + 1) : SubSeq(e, i, i + Len(m) - 1) = m

AllFailed(outs) == \A k \in 1..Len(outs) : ~outs[k].ok

\* the waits d, 2d, 4d, ... after the first n failures
ExpectedDelays(d, n) == [k \in 1..n |-> d * 2 ^ (k - 1)]

\* C6: while the operation has failed on every call, the j-th failure has been followed
\* by a wait of initialDelay * 2^(j-1) unless it was the last allowed attempt; after
\* maxRetries >= 1 failures the call has invoked the operation exactly maxRetries
\* times and throws an error that embeds the message of the last failure.
C6_RetryExhaustion ==
    (api.fn = "retryWithBackoff" /\ rt.maxRetries >= 1 /\ AllFailed(api.outcomes)) =>
        LET j == Len(api.outcomes)
            N == rt.maxRetries
        IN  /\ j <= N
            /\ rt.invoked = j
            /\ rt.delays = ExpectedDelays(rt.initialDelay, Min(j, N - 1))
            /\ j < N => rt.status = "running"
            /\ j = N => /\ rt.status = "thrown"
                        /\ Embeds(api.outcomes[N].message, rt.error)
                        /\ Embeds(<<"Failed after", ToString(N)>>, rt.error)

C6_Witness ==
    /\ api.fn = "retryWithBackoff"
    /\ rt.maxRetries = 3
    /\ rt.initialDelay = 1000
    /\ rt.status = "thrown"
    /\ rt.invoked = 3
    /\ rt.delays = <<1000, 2000>>
    /\ rt.error = <<"Failed after", "3", "attempts. Last error:", "boom">>

\* C7: when the operation first succeeds on attempt k <= maxRetries, the call returns
\* that attempt's value, the operation has been invoked exactly k times, exactly k-1
\* waits have occurred, and no error is thrown.
C7_RetryFirstSuccess ==
    /\ (api.fn = "retryWithBackoff" /\ api.outcomes # <<>>
        /\ api.outcomes[Len(api.outcomes)].ok) =>
            LET k == Len(api.outcomes)
            IN  /\ k <= rt.maxRetries
                /\ AllFailed(SubSeq(api.outcomes, 1, k - 1))
                /\ rt.status = "returned"
                /\ rt.value = api.outcomes[k].value
                /\ rt.invoked = k
                /\ rt.delays = ExpectedDelays(rt.initialDelay, k - 1)
                /\ rt.error = <<>>
    /\ (api.fn = "retryWithBackoff" /\ rt.status = "returned") =>
            api.outcomes # <<>> /\ api.outcomes[Len(api.outcomes)].ok

C7_Witness ==
    /\ api.fn = "retryWithBackoff"
    /\ rt.status = "returned"
    /\ rt.invoked = 3
    /\ rt.value = "r2"
    /\ Len(rt.delays) = 2

----------------------------------------------------------------------------
(* Properties of a generate-assets run, checked under SpecStage1 *)

InStage1 == opts.script = "generate-assets"

\* processAddress has returned for addresses[idx] and its result has been pushed
ItemDone == InStage1 /\ pc = "pushed"

LastResult == results[Len(results)]

\* FetchDetails gave a name, so an id was derived for the item in progress
IdDerived == Truthy(cur.placeName)

ConflictMessage == <<"File exists and skip-existing flag is set">>

\* C8: with skip-existing active and force off, an item whose derived id is already in
\* the registry ends skipped after exactly one resolve call and one details call, with
\* no capture, inference or synthesis call, no file written and no registry write.
C8_SkipSemantics ==
    (/\ ItemDone
     /\ opts.skipExisting /\ ~opts.forceRegenerate
     /\ IdDerived
     /\ buildingExists(pre.storage, cur.buildingId))
    => /\ LastResult.status = "skipped"
       /\ LastResult.buildingId = cur.buildingId
       /\ calls = [NoCalls EXCEPT !.resolve = 1, !.details = 1, !.exists = 1]
       /\ files = pre.files
       /\ storage = pre.storage

C8_Witness ==
    /\ ItemDone
    /\ opts.skipExisting /\ ~opts.forceRegenerate
    /\ LastResult.status = "skipped"
    /\ LastResult.buildingId = SeedId
    /\ calls.resolve = 1 /\ calls.details = 1 /\ calls.capture = 0

\* C9: with force-regenerate, no item is skipped and none fails with the file
\* conflict; an item whose name was fetched goes on to Capture, and once synthesis
\* has returned an image the item saves it (over an existing file too), registers the
\* definition and ends successful.
C9_ForceOverridesSkip ==
    (InStage1 /\ opts.forceRegenerate) =>
        /\ \A k \in 1..Len(results) :
              /\ results[k].status # "skipped"
              /\ results[k].status = "failed" => results[k].error # ConflictMessage
        /\ (ItemDone /\ IdDerived) => calls.capture = 1
        /\ (ItemDone /\ IdDerived /\ calls.synth >= 1 /\ rt.status = "returned") =>
              /\ LastResult.status = "success"
              /\ calls.fileWrites = 1 /\ calls.registryWrites = 1
              /\ files[generateFilename([name |-> cur.placeName])] = cur.refImageBuffer
              /\ buildingExists(storage, cur.buildingId)
              /\ readRegistry(storage).value.rec[cur.buildingId] = BuildingDefinitionOf(cur)

C9_Witness ==
    /\ ItemDone
    /\ opts.forceRegenerate
    /\ buildingExists(pre.storage, cur.buildingId)
    /\ generateFilename([name |-> cur.placeName]) \in DOMAIN pre.files
    /\ LastResult.status = "success"
    /\ files[generateFilename([name |-> cur.placeName])] = "new"

\* the pc values inside processAddress
ItemStages == {"geocode", "details", "capture", "infer", "synth", "save", "register"}

BatchShape ==
    InStage1 =>
        /\ pc \in ItemStages => Len(results) = idx - 1
        /\ pc = "pushed" => Len(results) = idx
        /\ \A k \in 1..Len(results) : results[k].address = addresses[k]
        /\ pc = "pushed" => ENABLED (NextAddress \/ FinishStage1)
        /\ (pc = "exited" /\ addresses # <<>>) =>
              /\ exitCode = 0
              /\ Len(results) = Len(addresses)
              /\ summary.results = results
        /\ (ItemDone /\ LastResult.status = "failed") =>
              storage = pre.storage /\ files = pre.files

\* within a run the results pushed so far are never changed or removed
ResultsAppendOnly ==
    runs' = runs => /\ Len(results') >= Len(results)
                    /\ SubSeq(results', 1, Len(results)) = results

\* C10: a batch of N addresses yields exactly N results, the k-th for the k-th address;
\* after any item, failed or not, the loop goes on to the next address or to the end of
\* the batch; a failed item leaves the registry and the output directory as they were
\* before it, and no result already produced is changed by a later item.
C10_BatchResilience == []BatchShape /\ [][ResultsAppendOnly]_vars

C10_Witness ==
    /\ InStage1 /\ pc = "exited"
    /\ Len(addresses) = 2
    /\ Len(results) = 2
    /\ results[1].status = "failed"
    /\ results[1].error = <<"Geocoding failed">>
    /\ results[2].status = "success"

----------------------------------------------------------------------------
(* Properties of runs of both scripts in any order, checked under SpecRuns *)

\* every stored record is still stored after the step, with every field it had, and
\* only its 3dModel field may have a new value
RecordsKept ==
    LET old == readRegistry(storage).value
        new == readRegistry(storage').value
    IN  \A id \in DOMAIN old.rec :
           /\ Has(new, id)
           /\ \A f \in DOMAIN old.rec[id] :
                 /\ f \in DOMAIN new.rec[id]
                 /\ f # "3dModel" => new.rec[id][f] = old.rec[id][f]

\* C2: across runs of both scripts in any order and mode, a stored record is never
\* removed and never loses a field; the only change to an existing record is the
\* 3dModel field that Step 2 adds.
C2_RecordsNeverLoseFields == [][RecordsKept]_vars

\* C4: a run that finds the stored registry unparsable ends with a non-zero exit
\* status, and no step of a run overwrites unparsable stored content.
C4_CorruptRegistryAborts ==
    /\ []((pc = "exited" /\ storage.kind = "malformed") => exitCode # 0)
    /\ [][storage.kind = "malformed" => storage' = storage]_vars

----------------------------------------------------------------------------
(* Order of the stages of processAddress, checked under SpecStage1 *)

\* no result has been pushed yet for the item in progress
ItemOpen == InStage1 /\ Len(results) = idx - 1

\* the call counters of the item in progress form a chain
StageChain ==
    InStage1 =>
        /\ calls.resolve <= 1 /\ calls.details <= calls.resolve
        /\ calls.capture <= calls.details
        /\ calls.capture = 1 => IdDerived
        /\ calls.infer >= 1 => calls.capture = 1
        /\ calls.synth >= 1 => (calls.infer >= 1 /\ cur.metadata # EmptyFn)
        /\ calls.fileWrites <= 1 /\ calls.registryWrites <= calls.fileWrites
        /\ calls.fileWrites = 1 => (calls.synth >= 1 /\ cur.refImageBuffer # "")
        /\ (ItemDone /\ LastResult.status = "failed") => calls.registryWrites = 0

\* a step that invokes a stage (raises a counter of the same item) is taken while no
\* stage of the item has failed, i.e. while the item has no result yet
StageOrder ==
    (idx' = idx /\ runs' = runs /\ calls' # calls) =>
        /\ ItemOpen
        /\ pc \in ItemStages

\* C11: per item the stages are invoked in the order Resolve, FetchDetails, Capture,
\* InferMetadata, Synthesize, Save, Register, each only after the one before it
\* succeeded, and once a stage has failed no later stage of the item is invoked.
C11_StrictStageOrder == []StageChain /\ [][StageOrder]_vars

\* InferMetadata used up its attempts: Synthesize, Save and Register never ran
C11_Witness ==
    /\ ItemDone
    /\ LastResult.status = "failed"
    /\ calls = [NoCalls EXCEPT !.resolve = 1, !.details = 1, !.capture = 1, !.infer = 3]

NameRequiredMessage == <<"Place details unavailable: Name is required">>

ItemFilename == generateFilename([name |-> cur.placeName])

\* synthesis has returned an image for the item, so "Step 6" has been reached
SaveReached == IdDerived /\ calls.synth >= 1 /\ rt.status = "returned"

\* C13: in skip-existing mode, when a file with the derived name already exists at
\* Save, saveSprite is called once and the item ends failed with the conflict error;
\* the existing file keeps its content and addBuildingToRegistry is not called.
C13_SaveConflict ==
    (/\ ItemDone /\ SaveReached
     /\ opts.skipExisting
     /\ ItemFilename \in DOMAIN pre.files)
    => /\ LastResult.status = "failed"
       /\ LastResult.error = ConflictMessage
       /\ calls.save = 1 /\ calls.fileWrites = 0 /\ calls.registryWrites = 0
       /\ files = pre.files
       /\ storage = pre.storage

C13_Witness ==
    /\ ItemDone /\ SaveReached
    /\ opts.skipExisting
    /\ LastResult.error = ConflictMessage
    /\ calls.save = 1 /\ calls.registryWrites = 0
    /\ files[SeedFile] = "old"
    /\ cur.refImageBuffer = "new"

----------------------------------------------------------------------------
(* What generate-assets registers, checked under SpecStage1 *)

\* type BuildingCategory
BuildingCategory == {"residential", "commercial", "civic", "landmark", "props"}

\* "Footprint: width and height in 1-8 grid cells"
FootprintRange == 1..8

\* C14: every record that generate-assets writes to the registry has a category of
\* BuildingCategory and a footprint with width and height in 1..8 (a model answer
\* outside these is a failed attempt and is never registered).
C14_RegisteredMetadataValid ==
    (InStage1 /\ calls.registryWrites = 1) =>
        LET r == readRegistry(storage).value.rec[cur.buildingId]
        IN  /\ r.category \in BuildingCategory
            /\ r.footprint.width \in FootprintRange
            /\ r.footprint.height \in FootprintRange

----------------------------------------------------------------------------
(* Retry accounting of inferMetadata, checked under SpecStage1 *)

\* the good answer with one of its four fields left out
MissingFieldMetadata ==
    {[f \in DOMAIN GoodMetadata \ {g} |-> GoodMetadata[f]] : g \in DOMAIN GoodMetadata}

\* every kind of bad answer makes generateContent throw, as a service error does
BadAnswersThrow ==
    /\ \A resp \in InferResponses :
          (resp.kind # "json" \/ MetadataInvalid(resp.json)) => ~generateContent(resp).ok
    /\ \A m \in MissingFieldMetadata : ~generateContent([kind |-> "json", json |-> m]).ok
    /\ ~generateContent([kind |-> "nojson", json |-> EmptyFn]).ok

\* the item in progress ended because inferMetadata threw
InferExhausted == ItemDone /\ calls.infer >= 1 /\ calls.synth = 0

\* C15: an answer without JSON or without category, footprint, name or icon uses up an
\* attempt exactly as a service error does; generateContent runs at most 3 times per
\* item, with waits of 1000 then 2000 ms between the attempts, and after 3 failed
\* attempts the item ends failed without any Synthesize call.
C15_InferRetryAccounting ==
    /\ BadAnswersThrow
    /\ InStage1 =>
          /\ calls.infer <= InferMaxRetries
          /\ pc = "infer" =>
                /\ rt.invoked = calls.infer
                /\ calls.infer < InferMaxRetries
                /\ rt.delays = ExpectedDelays(InferInitialDelay, calls.infer)
                /\ calls.synth = 0
          /\ InferExhausted =>
                /\ calls.infer = 3
                /\ rt.status = "thrown"
                /\ rt.delays = <<1000, 2000>>
                /\ LastResult.status = "failed"
                /\ LastResult.error = rt.error
                /\ Embeds(<<"Failed after", "3">>, rt.error)
                /\ calls.save = 0 /\ calls.registryWrites = 0

\* three attempts: a service error, an answer without JSON, an answer without icon
C15_Witness ==
    /\ InferExhausted
    /\ calls.infer = 3
    /\ rt.delays = <<1000, 2000>>
    /\ rt.lastError.message = <<"Invalid metadata structure from Gemini">>
    /\ LastResult.status = "failed"

----------------------------------------------------------------------------
(* The registry across runs of both scripts, checked under SpecRuns *)

StoredRecords == readRegistry(storage).value.rec

\* C16: in every registry state reached by runs of generate-assets and
\* generate-3d-models, in any order and mode, a record with a '3dModel' field also has
\* a 'refImage' field.
C16_ModelImpliesRefImage ==
    \A id \in DOMAIN StoredRecords :
        "3dModel" \in DOMAIN StoredRecords[id] => HasTruthy(StoredRecords[id], "refImage")

\* Step 2 has just stored a model path for a record that Step 1 registered in this
\* behaviour
C16_Witness ==
    /\ opts.script = "generate-3d-models"
    /\ runs = 2
    /\ s2.results # <<>>
    /\ s2.results[Len(s2.results)].status = "success"
    /\ LET id == s2.results[Len(s2.results)].buildingId
       IN  /\ id # SeedId
           /\ Has(readRegistry(storage).value, id)
           /\ StoredRecords[id]["3dModel"] = GlbPathOf(id)
           /\ HasTruthy(StoredRecords[id], "refImage")

----------------------------------------------------------------------------
(* Properties of generateBuildingId, checked under SpecSlug *)

\* the positions of the characters of [a-z0-9] in s, in increasing order
RECURSIVE AlnumPositions(_, _)
AlnumPositions(s, k) ==
    IF k > Len(s) THEN <<>>
    ELSE (IF IsAlnum(s[k]) THEN <<k>> ELSE <<>>) \o AlnumPositions(s, k + 1)

RECURSIVE Flatten(_)
Flatten(ss) == IF ss = <<>> THEN <<>> ELSE Head(ss) \o Flatten(Tail(ss))

\* the slug stated by positions: the alphanumeric characters of the lowercased name in
\* order, with one '-' between two of them exactly when they are not neighbours
SlugOf(name) ==
    LET low == toLowerCase(name)
        p == AlnumPositions(low, 1)
    IN  Flatten([k \in 1..Len(p) |->
                   IF k > 1 /\ p[k] > p[k - 1] + 1 THEN <<"-", low[p[k]]>>
                   ELSE <<low[p[k]]>>])

\* the same name in the other case, with every non-alphanumeric character doubled, and
\* with non-alphanumerics put around it
SwapCase(name) ==
    [k \in 1..Len(name) |->
        IF \E j \in 1..Len(UpperLetters) : LowerLetters[j] = name[k]
        THEN UpperLetters[CHOOSE j \in 1..Len(UpperLetters) : LowerLetters[j] = name[k]]
        ELSE LowerChar(name[k])]
DoubleRuns(name) ==
    Flatten([k \in 1..Len(name) |->
               IF IsAlnum(LowerChar(name[k])) THEN <<name[k]>> ELSE <<name[k], name[k]>>])
Padded(name) == <<"!", " ">> \o name \o <<"-", "!">>

FerryBuilding == <<"F", "e", "r", "r", "y", " ", "B", "u", "i", "l", "d", "i", "n", "g">>
FerryBuildingLoud ==
    <<"F", "E", "R", "R", "Y", " ", " ", " ", "B", "u", "i", "l", "d", "i", "n", "g", "!", "!">>
FerryBuildingId == <<"f", "e", "r", "r", "y", "-", "b", "u", "i", "l", "d", "i", "n", "g">>

\* C17: generateBuildingId gives the lowercased name with every maximal run of
\* characters outside [a-z0-9] replaced by one '-' and without a leading or trailing
\* '-'; names that differ only in case, in the length of their non-alphanumeric runs or
\* in leading and trailing non-alphanumerics get the same id.
C17_SlugDerivation ==
    /\ generateBuildingId(FerryBuilding) = FerryBuildingId
    /\ generateBuildingId(FerryBuildingLoud) = FerryBuildingId
    /\ api.fn = "generateBuildingId" =>
          /\ api.value = SlugOf(api.name)
          /\ api.value = generateBuildingId(api.name)
          /\ generateBuildingId(SwapCase(api.name)) = api.value
          /\ generateBuildingId(DoubleRuns(api.name)) = api.value
          /\ generateBuildingId(Padded(api.name)) = api.value

C17_Witness ==
    /\ api.fn = "generateBuildingId"
    /\ api.name = <<"A", "!", " ", "B">>
    /\ api.value = <<"a", "-", "b">>

----------------------------------------------------------------------------
(* Properties of pollAndProcessPhase, checked under SpecStage2 and SpecStage2Live *)

InStage2 == opts.script = "generate-3d-models"

\* the results of Phase 2 that belong to the job with this requestId
ResultsOf(requestId) ==
    {k \in 1..Len(s2.results) : s2.results[k].requestId = requestId}

\* the latest status answer resolves its job: FAILED, or COMPLETED with a result
LastIsTerminal(st) ==
    \/ st.last.status = "FAILED"
    \/ st.last.status = "COMPLETED" /\ st.last.result # "none"

\* while a job is pending the phase has not returned and no summary is written; once
\* the phase has returned, every queued job has exactly one result
Phase2Shape ==
    InStage2 =>
        /\ s2.pending # <<>> => (pc = "p2poll" /\ ~summary.written /\ exitCode = -1)
        /\ pc \in {"p2return", "exited"} =>
              /\ s2.pending = <<>>
              /\ Len(s2.results) = Len(s2.queuedJobs)
              /\ \A k \in 1..Len(s2.queuedJobs) :
                    Cardinality(ResultsOf(s2.queuedJobs[k].requestId)) = 1

\* a job leaves the pending map only on the step that got a terminal answer for it
LeavesOnlyResolved ==
    \A k \in 1..Len(s2.pending) :
        (\A j \in 1..Len(s2'.pending) : s2'.pending[j] # s2.pending[k]) =>
            /\ s2'.last.requestId = s2.pending[k].requestId
            /\ LastIsTerminal(s2')
            /\ Len(s2'.results) = Len(s2.results) + 1

\* C18: the poll loop returns only with an empty pending map; when every job is at some
\* poll reported COMPLETED with a result or FAILED, Phase 2 ends with one result per
\* queued job; a job that never gets such an answer stays pending, and while a job is
\* pending the phase does not return and the summary is not written.
C18_Phase2LivenessAndStall ==
    /\ []Phase2Shape
    /\ [][LeavesOnlyResolved]_vars
    /\ (InStage2 /\ pc = "p2poll") ~> (pc = "exited" /\ summary.written)

\* two jobs, one resolved in the first sweep and one only in the second
C18_Witness ==
    /\ InStage2 /\ pc = "p2return"
    /\ Len(s2.queuedJobs) = 2
    /\ s2.sweeps = 2
    /\ Len(s2.atStart) = 1
    /\ Len(s2.results) = 2
    /\ s2.pending = <<>>

RequestIdsOf(jobs) == [k \in 1..Len(jobs) |-> jobs[k].requestId]

\* within a sweep the handles queried so far followed by those still to visit are the
\* handles that were pending when the sweep began, each once and in map order
SweepCoversPending ==
    (InStage2 /\ pc = "p2poll") =>
        /\ s2.polled \o RequestIdsOf(s2.sweep) = RequestIdsOf(s2.atStart)
        /\ \A i, j \in 1..Len(s2.atStart) :
              s2.atStart[i].requestId = s2.atStart[j].requestId => i = j
        /\ s2.sweep = <<>> => s2.polled = RequestIdsOf(s2.atStart)
        /\ \A k \in 1..Len(s2.pending) :
              \E i \in 1..Len(s2.atStart) : s2.atStart[i] = s2.pending[k]

\* a status check whose answer is not terminal leaves the pending map and the results
\* as they were; a terminal answer removes exactly the handle that was queried
PollKeepsUnresolved ==
    (/\ InStage2 /\ pc = "p2poll" /\ s2.sweep # <<>>
     /\ s2'.polled = Append(s2.polled, Head(s2.sweep).requestId)) =>
        IF LastIsTerminal(s2')
        THEN s2'.pending = DeleteJob(s2.pending, Head(s2.sweep).requestId)
        ELSE s2'.pending = s2.pending /\ s2'.results = s2.results

\* C19: in every sweep each handle that is pending at the start of the sweep is queried
\* exactly once, also when handles are removed during the sweep, and a handle reported
\* still pending stays in the pending map.
C19_SweepQueriesEachOnce == []SweepCoversPending /\ [][PollKeepsUnresolved]_vars

\* a finished sweep over two handles: the first was resolved and removed, the second
\* was still queried and remains pending
C19_Witness ==
    /\ InStage2 /\ pc = "p2poll"
    /\ s2.sweep = <<>>
    /\ RequestIdsOf(s2.atStart) = <<1, 2>>
    /\ s2.polled = <<1, 2>>
    /\ RequestIdsOf(s2.pending) = <<2>>
    /\ Len(s2.results) = 1

\* the step is a status check of the first handle still to visit
IsPoll ==
    /\ InStage2 /\ pc = "p2poll" /\ s2.sweep # <<>>
    /\ s2'.polled = Append(s2.polled, Head(s2.sweep).requestId)

\* what the step does with a job it resolves successfully: the handle is removed, the
\* .glb is stored under the building id, '3dModel' is set in the building's record and
\* a success result carries the whole seconds elapsed since the job was submitted
ResolvedWithSuccess(job) ==
    /\ s2'.pending = DeleteJob(s2.pending, job.requestId)
    /\ GlbPathOf(job.buildingId) \in glbs'
    /\ Has(readRegistry(storage').value, job.buildingId)
    /\ readRegistry(storage').value.rec[job.buildingId]
          = ("3dModel" :> GlbPathOf(job.buildingId))
            @@ readRegistry(storage).value.rec[job.buildingId]
    /\ Len(s2'.results) = Len(s2.results) + 1
    /\ LET r == s2'.results[Len(s2'.results)]
       IN  /\ r.status = "success"
           /\ r.buildingId = job.buildingId
           /\ r.requestId = job.requestId
           /\ r.glbPath = GlbPathOf(job.buildingId)
           /\ r.duration = (s2'.now - job.submitTime) \div 1000

ResolvedWithFailure(job) ==
    /\ Len(s2'.pending) = Len(s2.pending) - 1
    /\ \A k \in 1..Len(s2'.pending) : s2'.pending[k].requestId # job.requestId
    /\ \A k \in 1..Len(s2'.pending) : \E j \in 1..Len(s2.pending) :
          s2'.pending[k] = s2.pending[j]
    /\ Len(s2'.results) = Len(s2.results) + 1
    /\ s2'.results[Len(s2'.results)].status = "failed"
    /\ s2'.results[Len(s2'.results)].requestId = job.requestId
    /\ storage' = storage /\ glbs' = glbs

\* C20: whenever a status check reports COMPLETED, the same step removes the handle,
\* stores the binary under the building id, sets '3dModel' in the record and emits a
\* success result with the elapsed time since submission.
C20_CompletedIsPersisted ==
    [][(IsPoll /\ s2'.last.status = "COMPLETED") => ResolvedWithSuccess(Head(s2.sweep))]_vars

\* what a COMPLETED answer leads to: with a result that holds a model URL, a successful
\* download and successful writes, the success outcome above; with a result without
\* model URL, a failed download or a failed write, the handle is removed with a failed
\* result and the registry is not changed; without a result, the handle stays pending
\* and no result is emitted
CompletedOutcomes ==
    [][(IsPoll /\ s2'.last.status = "COMPLETED") =>
          LET job == Head(s2.sweep)
          IN  CASE s2'.last.result = "none" ->
                      /\ s2'.pending = s2.pending /\ s2'.results = s2.results
                      /\ storage' = storage /\ glbs' = glbs
                [] s2'.last.result = "url" /\ s2'.last.downloaded
                   /\ s2'.last.written = "ok"
                   /\ buildingExists(storage, job.buildingId) ->
                      ResolvedWithSuccess(job)
                [] s2'.last.result = "url" /\ s2'.last.downloaded
                   /\ s2'.last.written = "updateFails" ->
                      /\ job.requestId \notin {s2'.pending[k].requestId :
                                                  k \in 1..Len(s2'.pending)}
                      /\ s2'.results[Len(s2'.results)].status = "failed"
                      /\ storage' = storage
                [] OTHER -> ResolvedWithFailure(job)]_vars

ExpectedDelay(P) ==
    IF P = {} THEN 5000
    ELSE LET m == CHOOSE x \in P : \A y \in P : x <= y
         IN  IF m * 1000 < 2000 THEN 2000
             ELSE IF m * 1000 > 30000 THEN 30000 ELSE m * 1000

Elements(q) == {q[k] : k \in 1..Len(q)}

\* the positions collected in a sweep are those reported by handles that stay pending
HintsOfPending ==
    IsPoll =>
        IF ~LastIsTerminal(s2') /\ s2'.last.queue_position # -1
        THEN s2'.queuePositions = Append(s2.queuePositions, s2'.last.queue_position)
        ELSE s2'.queuePositions = s2.queuePositions

\* the step from one sweep to the next
IsNextSweep == InStage2 /\ pc = "p2poll" /\ s2'.sweeps = s2.sweeps + 1

\* the pause between two sweeps lasts the expected delay, and a new sweep starts
\* without hints
DelayBetweenSweeps ==
    IsNextSweep =>
        /\ s2.sweep = <<>> /\ s2.pending # <<>>
        /\ s2'.interval = ExpectedDelay(Elements(s2.queuePositions))
        /\ s2'.now = s2.now + s2'.interval
        /\ s2.queuePositions # <<>> => (s2'.interval >= 2000 /\ s2'.interval <= 30000)
        /\ s2'.queuePositions = <<>>

\* C22: after a sweep that leaves handles pending the next delay is
\* clamp(min(P) * 1000, 2000, 30000) ms for the queue positions P reported in that
\* sweep by handles still pending, and 5000 ms when there are none; positions [3, 50]
\* give 3000 ms and a delay computed from hints lies within [2000, 30000] ms.
C22_AdaptivePollDelay ==
    /\ [](/\ PollInterval(<<3, 50>>) = 3000
          /\ PollInterval(<<50, 3>>) = 3000
          /\ PollInterval(<<>>) = 5000)
    /\ [][HintsOfPending /\ DelayBetweenSweeps]_vars

\* two handles reported positions 50 and 3 in the first sweep; the second sweep began
\* 3000 ms later
C22_Witness ==
    /\ InStage2 /\ pc = "p2poll"
    /\ s2.sweeps = 2
    /\ Len(s2.pending) = 2
    /\ s2.interval = 3000
    /\ s2.now = 4000
    /\ s2.polled = <<>>


----------------------------------------------------------------------------
(* Phase 1 of generate-3d-models, checked under SpecStage2 *)

InPhase1 == InStage2 /\ pc \in {"p1check", "p1upload", "p1submit"}

\* the items whose Phase 1 iteration is over
ItemsDone == IF InPhase1 THEN 1..(idx - 1) ELSE 1..Len(s2.buildingIds)

Phase1ResultsOf(id) == SelectSeq(results, LAMBDA r : r.buildingId = id)
JobsOf(id) == SelectSeq(s2.queuedJobs, LAMBDA j : j.buildingId = id)
Logged(kind, id) == \E k \in 1..Len(log) : log[k] = <<kind, id>>

\* the stored record of id, as the registry file holds it during the run
RecordOf(id) == readRegistry(storage).value.rec[id]
IsStored(id) == id \in DOMAIN readRegistry(storage).value.rec
LacksRefImage(id) ==
    \/ "refImage" \notin DOMAIN RecordOf(id)
    \/ RecordOf(id).refImage = <<>>

FailedWith(id, message) ==
    /\ Len(Phase1ResultsOf(id)) = 1
    /\ Phase1ResultsOf(id)[1].status = "failed"
    /\ Phase1ResultsOf(id)[1].error = message
    /\ JobsOf(id) = <<>>

\* a finished item that met one of the four errors has one failed result and no job
ErrorsIsolated ==
    (InStage2 /\ pc # "exited") =>
        \A k \in ItemsDone :
            LET id == s2.buildingIds[k]
                skip == /\ ~opts.forceRegenerate /\ IsStored(id)
                        /\ "3dModel" \in DOMAIN RecordOf(id)
            IN  /\ (~skip /\ ~IsStored(id)) =>
                      /\ FailedWith(id, <<"Building">> \o id \o <<"not found in registry">>)
                      /\ ~Logged("upload", id)
                /\ (~skip /\ IsStored(id) /\ LacksRefImage(id)) =>
                      /\ FailedWith(id, <<"Building">> \o id \o <<"has no reference image">>)
                      /\ ~Logged("upload", id)
                /\ (Logged("upload", id) /\ ~Logged("submit", id)) =>
                      FailedWith(id, <<"upload failed">>)
                /\ (Logged("submit", id) /\ JobsOf(id) = <<>>) =>
                      FailedWith(id, <<"submit failed">>)
                /\ Len(Phase1ResultsOf(id)) + Len(JobsOf(id)) = 1
                /\ \A j \in 1..Len(s2.pending) :
                      s2.pending[j].buildingId = id => Len(JobsOf(id)) = 1

\* a step of Phase 1 that records a failure goes on with the next item
FailureContinues ==
    (InPhase1 /\ Len(results') = Len(results) + 1
              /\ results'[Len(results')].status = "failed") =>
        /\ results' = Append(results, results'[Len(results')])
        /\ results'[Len(results')].buildingId = s2.buildingIds[idx]
        /\ s2'.queuedJobs = s2.queuedJobs
        /\ exitCode' = exitCode
        /\ idx < Len(s2.buildingIds) => (pc' = "p1check" /\ idx' = idx + 1)
        /\ idx = Len(s2.buildingIds) => pc' \in {"p2poll", "p2return"}

\* C23: in Phase 1 a missing registry record, a missing reference image, an upload
\* failure or a submission failure gives exactly one failed result for that item and no
\* job handle for it, and the items after it are still processed.
C23_Phase1ErrorIsolation ==
    /\ []ErrorsIsolated
    /\ [][FailureContinues]_vars

\* the upload of the first of two items failed and the second item was submitted
C23_Witness ==
    /\ InStage2 /\ pc = "p2poll"
    /\ Len(s2.buildingIds) = 2
    /\ FailedWith(s2.buildingIds[1], <<"upload failed">>)
    /\ Len(JobsOf(s2.buildingIds[2])) = 1
    /\ Len(s2.pending) = 1


\* the record of id in the registry file as the run found it had a model path
HadModelAtStart(id) ==
    LET before == readRegistry(pre.storage).value.rec
    IN  id \in DOMAIN before /\ "3dModel" \in DOMAIN before[id]
                             /\ before[id]["3dModel"] # <<>>

\* C24: with force-regenerate off no upload and no submit call is issued for an item
\* whose registry record already has a '3dModel', also when the item was selected with
\* --building-id; the item gets one skipped result.
C24_IncrementalByDefault ==
    (InStage2 /\ ~opts.forceRegenerate) =>
        \A k \in 1..Len(s2.buildingIds) :
            LET id == s2.buildingIds[k]
            IN  HadModelAtStart(id) =>
                    /\ ~Logged("upload", id)
                    /\ ~Logged("submit", id)
                    /\ JobsOf(id) = <<>>
                    /\ k \in ItemsDone => Phase1ResultsOf(id) = <<Skipped2(id)>>

\* a second run selected with --building-id the building that already has a model and
\* ended with one skipped result and no call to the provider
C24_Witness ==
    /\ InStage2 /\ ~opts.forceRegenerate
    /\ runs = 2
    /\ pc = "exited"
    /\ s2.buildingIds = <<SeedId>>
    /\ HadModelAtStart(SeedId)
    /\ results = <<Skipped2(SeedId)>>
    /\ summary.skipped = 1
    /\ log = <<>>


\* the record has the field with a non-empty value
HasField(r, f) == f \in DOMAIN r /\ r[f] # <<>>

\* the ids of the registry file, as the run found it, that have a reference image
WithRefImage ==
    LET before == readRegistry(pre.storage).value.rec
    IN  {id \in DOMAIN before : HasField(before[id], "refImage")}

WithModel ==
    LET before == readRegistry(pre.storage).value.rec
    IN  {id \in DOMAIN before : HasField(before[id], "3dModel")}

\* the run got past validateEnv and was started without --building-id
UnfilteredRun == InStage2 /\ exitCode # 1 /\ opts.buildingId = <<>>

\* C25: without --building-id the ids given to Phase 1 are exactly the registry ids
\* with a reference image and without a model when force-regenerate is off, and exactly
\* the registry ids with a reference image when it is on.
C25_Eligibility ==
    UnfilteredRun =>
        /\ Elements(s2.buildingIds) =
              IF opts.forceRegenerate THEN WithRefImage ELSE WithRefImage \ WithModel
        /\ Len(s2.buildingIds) = Cardinality(Elements(s2.buildingIds))

\* one store, both settings: two buildings with a reference image, one of them with a
\* model; the forced run is given both
C25_Witness ==
    /\ UnfilteredRun /\ opts.forceRegenerate
    /\ pc = "p1check" /\ idx = 1
    /\ WithRefImage = {SeedId, OtherId}
    /\ WithModel = {SeedId}
    /\ Elements(s2.buildingIds) = {SeedId, OtherId}

\* the same store without force-regenerate: only the building without a model is given
UnforcedSelection ==
    /\ UnfilteredRun /\ ~opts.forceRegenerate
    /\ pc = "p1check" /\ idx = 1
    /\ WithRefImage = {SeedId, OtherId}
    /\ WithModel = {SeedId}
    /\ s2.buildingIds = <<OtherId>>


----------------------------------------------------------------------------
(* The results of a run of generate-3d-models, checked under SpecStage2 *)

\* the run went through both phases and ended
Stage2Terminated == InStage2 /\ pc = "exited" /\ s2.buildingIds # <<>>

AllResults == results \o s2.results
AllResultsOf(id) == SelectSeq(AllResults, LAMBDA r : r.buildingId = id)
Phase2ResultsOf(id) == SelectSeq(s2.results, LAMBDA r : r.buildingId = id)

\* the item took exactly one of the two ways to its single result
OneResultFor(id) ==
    /\ Len(AllResultsOf(id)) = 1
    /\ \/ /\ Len(Phase1ResultsOf(id)) = 1
          /\ Phase1ResultsOf(id)[1].status \in {"skipped", "failed"}
          /\ JobsOf(id) = <<>>
          /\ Phase2ResultsOf(id) = <<>>
       \/ /\ Phase1ResultsOf(id) = <<>>
          /\ Len(JobsOf(id)) = 1
          /\ Len(Phase2ResultsOf(id)) = 1
          /\ Phase2ResultsOf(id)[1].status \in {"success", "failed"}
          /\ Phase2ResultsOf(id)[1].requestId = JobsOf(id)[1].requestId

\* C26: a run of generate-3d-models that terminates has exactly one result per item
\* given to Phase 1: one skipped or failed result of Phase 1, or one job handle with one
\* success or failed result of Phase 2; during the run no item has two results.
C26_OneResultPerItem ==
    /\ InStage2 =>
          \A k \in 1..Len(s2.buildingIds) : Len(AllResultsOf(s2.buildingIds[k])) <= 1
    /\ Stage2Terminated =>
          /\ Len(AllResults) = Len(s2.buildingIds)
          /\ \A k \in 1..Len(s2.buildingIds) : OneResultFor(s2.buildingIds[k])
          /\ \A k \in 1..Len(AllResults) :
                \E j \in 1..Len(s2.buildingIds) : AllResults[k].buildingId = s2.buildingIds[j]
          /\ summary.results = AllResults

\* a run of two items ended: one failed in Phase 1, the other was queued and succeeded
C26_Witness ==
    /\ Stage2Terminated
    /\ Len(s2.buildingIds) = 2
    /\ Len(results) = 1 /\ results[1].status = "failed"
    /\ Len(s2.results) = 1 /\ s2.results[1].status = "success"
    /\ results[1].buildingId # s2.results[1].buildingId
    /\ summary.total = 2


----------------------------------------------------------------------------
(* The summary written by saveResults, checked under SpecSummary *)

RECURSIVE CountOf(_, _)
CountOf(rs, st) ==
    IF rs = <<>> THEN 0
    ELSE (IF Head(rs).status = st THEN 1 ELSE 0) + CountOf(Tail(rs), st)

\* C27: for a list of N results the persisted summary has total = N, successful, failed
\* and skipped equal to the number of results with that status, the three adding up to
\* total, and results equal to the list in its order.
C27_SummaryCorrect ==
    api.fn = "saveResults" =>
        /\ summary.written
        /\ summary.total = Len(api.results)
        /\ summary.successful = CountOf(api.results, "success")
        /\ summary.failed = CountOf(api.results, "failed")
        /\ summary.skipped = CountOf(api.results, "skipped")
        /\ summary.successful + summary.failed + summary.skipped = summary.total
        /\ summary.results = api.results

\* a list of four with a repeated result and all three statuses
C27_Witness ==
    /\ api.fn = "saveResults"
    /\ Len(api.results) = 4
    /\ api.results[1] = api.results[3]
    /\ summary.total = 4
    /\ summary.successful = 2 /\ summary.failed = 1 /\ summary.skipped = 1


----------------------------------------------------------------------------
(* Pacing of generate-assets, checked under SpecStage1 *)

\* item 1, then for every further item the rate-limit delay and the item
RECURSIVE PacedItems(_)
PacedItems(k) ==
    IF k = 0 THEN <<>>
    ELSE IF k = 1 THEN << <<"item", 1>> >>
    ELSE PacedItems(k - 1) \o << <<"delay", 2000>>, <<"item", k>> >>

DelaysIn(lg) == Cardinality({k \in 1..Len(lg) : lg[k][1] = "delay"})

\* the next item is begun after the delay, whatever the result of the item before
DelayAfterEveryItem ==
    (InStage1 /\ pc = "pushed" /\ idx < Len(addresses)) =>
        /\ Len(results) = idx
        /\ results[idx].status \in {"success", "failed", "skipped"}
        /\ log' = log \o << <<"delay", 2000>>, <<"item", idx + 1>> >>
        /\ idx' = idx + 1

\* C28: a batch of N items has exactly N-1 rate-limit delays, one after each item but
\* the last, whether the item succeeded, failed or was skipped, and an item is begun
\* only after the delay that follows the item before it.
C28_RateLimiting ==
    /\ [](InStage1 =>
            /\ log = PacedItems(idx)
            /\ (pc = "exited" /\ exitCode = 0) =>
                  /\ idx = Len(addresses)
                  /\ DelaysIn(log) = Len(addresses) - 1
                  /\ log[Len(log)] = <<"item", Len(addresses)>>)
    /\ [][DelayAfterEveryItem]_vars

\* a batch of two ended with one delay, after a first item that failed
C28_Witness ==
    /\ InStage1 /\ pc = "exited" /\ exitCode = 0
    /\ Len(addresses) = 2
    /\ results[1].status = "failed"
    /\ log = << <<"item", 1>>, <<"delay", 2000>>, <<"item", 2>> >>

\* the same after a first item that was skipped
DelayAfterSkipped ==
    /\ InStage1 /\ pc = "exited" /\ exitCode = 0
    /\ Len(addresses) = 2
    /\ results[1].status = "skipped"
    /\ DelaysIn(log) = 1


----------------------------------------------------------------------------
(* Pacing of Phase 1 of generate-3d-models, checked under SpecStage2 *)

\* C29: between any two consecutive upload calls of a run of generate-3d-models the
\* upload delay elapses, whatever the outcome of the earlier item (upload failure,
\* submission failure or success).
C29_UploadPacing ==
    InStage2 =>
        \A i, j \in 1..Len(log) :
            (i < j /\ log[i][1] = "upload" /\ log[j][1] = "upload") =>
                \E k \in (i + 1)..(j - 1) : log[k] = <<"delay", 1000>>

\* what the code does: the delay follows a successful submission only
DelayOnlyAfterQueued ==
    InStage2 =>
        \A k \in 1..Len(log) :
            log[k][1] = "delay" =>
                /\ k > 1 /\ log[k - 1][1] = "submit"
                /\ Len(JobsOf(log[k - 1][2])) = 1


----------------------------------------------------------------------------
(* Interrupted runs of generate-3d-models, checked under SpecInterrupt *)

\* the step in which the process is killed
IsInterrupt == InStage2 /\ pc # "exited" /\ pc' = "exited" /\ exitCode' = 130

\* the run that ended was interrupted
WasInterrupted == InStage2 /\ pc = "exited" /\ exitCode = 130

\* the items of the ended run with a job that did not come to a success result
Outstanding ==
    {s2.queuedJobs[k].buildingId : k \in
        {j \in 1..Len(s2.queuedJobs) :
            \A r \in 1..Len(s2.results) :
                s2.results[r].requestId = s2.queuedJobs[j].requestId
                    => s2.results[r].status # "success"}}

\* the next run: started without --building-id and with the same force setting
IsNextRun ==
    /\ WasInterrupted
    /\ runs' = runs + 1
    /\ opts'.script = "generate-3d-models"
    /\ opts'.buildingId = <<>>
    /\ opts'.forceRegenerate = opts.forceRegenerate
    /\ exitCode' # 1

\* the interrupt leaves the registry file as the last completed upsert left it
RegistryKept == IsInterrupt => storage' = storage

\* the next run is given every outstanding item again
Rediscovered == IsNextRun => Outstanding \subseteq Elements(s2'.buildingIds)

\* C30: when a run of generate-3d-models is interrupted at any point, the registry is
\* as the last completed upsert left it, and every item whose job had not been resolved
\* as completed is returned by the eligibility query of the next run and so submitted
\* again.
C30_InterruptRecovery == [][RegistryKept /\ Rediscovered]_vars

\* what the code does: after an interrupt that is not inside a registry write the
\* registry is untouched and the next run is given every outstanding item
RecoveryOutsideWrites ==
    [][/\ (IsInterrupt /\ storage'.kind = storage.kind) => storage' = storage
       /\ (IsNextRun /\ storage.kind = pre.storage.kind) =>
              Outstanding \subseteq Elements(s2'.buildingIds)]_vars


----------------------------------------------------------------------------
(* Restarting generate-3d-models, checked under SpecInterrupt *)

\* C31: when a run of generate-3d-models has been stopped and a new run is started
\* without force-regenerate, no building whose job completed (ended with a success
\* result) in an earlier run is uploaded or submitted again.
C31_CompletedNotRequeued ==
    (InStage2 /\ ~opts.forceRegenerate) =>
        \A id \in s2.before.completed :
            /\ ~Logged("upload", id)
            /\ ~Logged("submit", id)
            /\ JobsOf(id) = <<>>

\* the run before was stopped after the job of one building had completed; the new
\* run queues the other building again and not the completed one
C31_Witness ==
    /\ InStage2 /\ ~opts.forceRegenerate
    /\ s2.before.interrupted
    /\ s2.before.completed = {SeedId}
    /\ s2.buildingIds = <<OtherId>>
    /\ Logged("upload", OtherId) /\ Logged("submit", OtherId)
    /\ Len(JobsOf(OtherId)) = 1


----------------------------------------------------------------------------
(* Concurrent upserts, checked under SpecWriters *)

InWriters == api.fn = "writers"

StoredNow == readRegistry(storage).value

\* the second process has made no upsert and is making none
SingleWriter == InWriters /\ api.w[2].pc = "idle" /\ api.w[2].done = 0

\* an upsert that returned without an error has left no trace: its record is absent
LostUpsert ==
    /\ InWriters
    /\ \E k \in 1..Len(api.upserts) : api.upserts[k].id \notin DOMAIN StoredNow.rec

\* a write puts back the mapping its process read, with its own change, whatever has
\* been written to the file since
WritesWhatItRead ==
    \A i \in Writers :
        (InWriters /\ api.w[i].pc = "read" /\ api'.w[i].pc = "idle"
            /\ api.w[i].op.fn = "addBuildingToRegistry") =>
                LET old == readRegistry(api.w[i].snapshot).value
                    new == readRegistry(storage').value
                IN  /\ DOMAIN new.rec = DOMAIN old.rec \cup {api.w[i].op.id}
                    /\ \A id \in DOMAIN old.rec \ {api.w[i].op.id} :
                          new.rec[id] = old.rec[id]

\* C32: the registry upsert reads and then writes without a lock: when the reads and
\* writes of two writers interleave, an upsert of one of them can be lost; with a single
\* writer no upsert is lost.
C32_UnlockedUpsert ==
    /\ [](SingleWriter => (~api.stale /\ ~LostUpsert))
    /\ []((InWriters /\ ~api.stale) => (storage = api.serial /\ ~LostUpsert))
    /\ [][WritesWhatItRead]_vars

\* both processes read the empty registry, then each added its building: the record
\* written first is gone
C32_Witness ==
    /\ LostUpsert
    /\ api.stale
    /\ Len(api.upserts) = 2
    /\ api.w[1].done = 1 /\ api.w[2].done = 1
    /\ api.upserts[1].id = SeedId /\ api.upserts[2].id = OtherId
    /\ DOMAIN StoredNow.rec = {OtherId}
    /\ storage # api.serial


----------------------------------------------------------------------------
(* Which external calls are retried, checked under SpecRuns *)

Uploads(id) == Cardinality({k \in 1..Len(log) : log[k] = <<"upload", id>>})
Submits(id) == Cardinality({k \in 1..Len(log) : log[k] = <<"submit", id>>})

\* C33: every call to an unreliable external dependency goes through the retry policy,
\* so one failure of such a call that would be followed by a success on the next
\* attempt does not give the item a failed result: an item that failed on a call had
\* that call attempted at least twice.
C33_EveryCallRetried ==
    /\ (InStage1 /\ pc = "pushed" /\ results[idx].status = "failed"
           /\ results[idx].error = <<"Geocoding failed">>) => calls.resolve >= 2
    /\ InStage2 =>
          \A k \in 1..Len(results) :
              /\ (results[k].status = "failed" /\ results[k].error = <<"upload failed">>)
                    => Uploads(results[k].buildingId) >= 2
              /\ (results[k].status = "failed" /\ results[k].error = <<"submit failed">>)
                    => Submits(results[k].buildingId) >= 2

\* what the code does: resolve, upload and submit are called once per item, and only
\* inference and synthesis are attempted again
OnlyGenerationRetried ==
    /\ InStage1 => (calls.resolve <= 1 /\ calls.details <= 1 /\ calls.capture <= 1)
    /\ InStage2 => \A k \in 1..Len(s2.buildingIds) :
                      /\ Uploads(s2.buildingIds[k]) <= 1
                      /\ Submits(s2.buildingIds[k]) <= 1


----------------------------------------------------------------------------
(* The life of a job handle in Phase 2, checked under SpecStage2 *)

InPhase2 == InStage2 /\ pc = "p2poll"

PendingSet(st) == {st.pending[k] : k \in 1..Len(st.pending)}

ResolvedIds(st) == {st.results[k].requestId : k \in 1..Len(st.results)}

\* pending only shrinks, and a handle leaves it in the step that polls it and adds its
\* one success or failed result
LeavesByResolution ==
    InPhase2 =>
        /\ PendingSet(s2') \subseteq PendingSet(s2)
        /\ \A job \in PendingSet(s2) \ PendingSet(s2') :
              /\ s2.sweep # <<>> /\ Head(s2.sweep) = job
              /\ Len(s2'.results) = Len(s2.results) + 1
              /\ s2'.results[Len(s2'.results)].requestId = job.requestId
              /\ s2'.results[Len(s2'.results)].status \in {"success", "failed"}

\* a status query is made for a handle that is pending and has no result
QueriesOnlyUnresolved ==
    IsPoll =>
        /\ Head(s2.sweep) \in PendingSet(s2)
        /\ Head(s2.sweep).requestId \notin ResolvedIds(s2)

\* C34: a job handle leaves the pending set only by being resolved, is never added
\* again, and is not status-queried after it has been resolved as completed or failed;
\* the pending set never grows during Phase 2.
C34_HandleLifecycle ==
    /\ [](InPhase2 =>
            /\ \A job \in PendingSet(s2) : job.requestId \notin ResolvedIds(s2)
            /\ \A k \in 1..Len(s2.queuedJobs) :
                  \/ s2.queuedJobs[k] \in PendingSet(s2)
                  \/ s2.queuedJobs[k].requestId \in ResolvedIds(s2))
    /\ [][LeavesByResolution /\ QueriesOnlyUnresolved]_vars

\* second sweep: the handle resolved in the first sweep is out of the pending set and
\* the sweep goes over the other one only
C34_Witness ==
    /\ InPhase2
    /\ s2.sweeps = 2
    /\ Len(s2.queuedJobs) = 2
    /\ Len(s2.pending) = 1
    /\ s2.polled = <<s2.pending[1].requestId>>
    /\ Cardinality(ResolvedIds(s2)) = 1
    /\ s2.pending[1].requestId \notin ResolvedIds(s2)


----------------------------------------------------------------------------
(* The order of the two phases, checked under SpecStage2 *)

\* a step of Phase 1 that calls the provider
IsUploadOrSubmit ==
    /\ InStage2
    /\ Len(log') = Len(log) + 1 \/ Len(log') = Len(log) + 2
    /\ log'[Len(log) + 1][1] \in {"upload", "submit"}

\* every item given to Phase 1 has been handled: it has a result of Phase 1 or a job
Phase1Over ==
    \A k \in 1..Len(s2.buildingIds) :
        Len(Phase1ResultsOf(s2.buildingIds[k])) + Len(JobsOf(s2.buildingIds[k])) = 1

\* C35: in a run of generate-3d-models no status query is made until Phase 1 has
\* handled every eligible item: every upload and submit call of the run comes before
\* every status query of the run.
C35_PhaseOrder ==
    /\ [](InStage2 =>
            /\ (s2.polled # <<>> \/ s2.last # NoStatus \/ s2.results # <<>>
                   \/ s2.sweeps > 0) => Phase1Over
            /\ pc \in {"p1check", "p1upload", "p1submit"} =>
                  (s2.last = NoStatus /\ s2.polled = <<>> /\ s2.sweeps = 0))
    /\ [][IsPoll => (Phase1Over /\ idx = Len(s2.buildingIds))]_vars
    /\ [][IsUploadOrSubmit => (s2.last = NoStatus /\ s2.sweeps = 0)]_vars

\* the first status query of a run, made after two uploads and two submissions
C35_Witness ==
    /\ InStage2 /\ pc = "p2poll"
    /\ Len(s2.polled) = 1 /\ s2.sweeps = 1
    /\ Len(s2.buildingIds) = 2
    /\ Len(s2.queuedJobs) = 2
    /\ \A k \in 1..2 : Uploads(s2.buildingIds[k]) = 1 /\ Submits(s2.buildingIds[k]) = 1


----------------------------------------------------------------------------
(* Registry changes of generate-assets, checked under SpecStage1 *)

\* the mapping readRegistry gives for the file as it was when the item began
MappingBefore == readRegistry(pre.storage).value
MappingNow == readRegistry(storage).value

\* the registry file changes in the step that ends the item with success and in no
\* other step of the run
ChangesOnlyOnSuccess ==
    (InStage1 /\ storage' # storage) =>
        /\ pc' = "pushed"
        /\ Len(results') = Len(results) + 1
        /\ results'[Len(results')].status = "success"
        /\ results'[Len(results')].buildingId \in DOMAIN readRegistry(storage').value.rec

\* C36: an item of generate-assets that ends failed or skipped leaves the registry
\* mapping as it was before the item was processed; the registry changes only as the
\* last step of an item that ends with success.
C36_FailureLeavesRegistry ==
    /\ []((ItemDone /\ results[idx].status \in {"failed", "skipped"}) =>
             (storage = pre.storage /\ MappingNow = MappingBefore))
    /\ []((InStage1 /\ pc \notin {"pushed", "exited", "idle"}) => storage = pre.storage)
    /\ [][ChangesOnlyOnSuccess]_vars

\* the second item failed at Save after the first had been registered: the registry
\* holds the first item's record, as before the second item
C36_Witness ==
    /\ ItemDone /\ idx = 2
    /\ results[1].status = "success"
    /\ results[2].status = "failed"
    /\ calls.synth >= 1 /\ calls.save = 1
    /\ storage = pre.storage
    /\ DOMAIN MappingNow.rec # {}


----------------------------------------------------------------------------
(* The file name and the id of a building, checked under SpecSlug *)

\* C37: for every name the file name produced for Save is the id derived from the name
\* followed by '.png', so the reference image of a record registered by generate-assets
\* has the record's id as its file stem.
C37_FilenameMatchesId ==
    api.fn = "generateBuildingId" =>
        /\ Len(api.filename) = Len(api.value) + 1
        /\ SubSeq(api.filename, 1, Len(api.value)) = api.value
        /\ api.filename[Len(api.filename)] = ".png"

\* "A B!" gives the id a-b and the file name a-b.png
C37_Witness ==
    /\ api.fn = "generateBuildingId"
    /\ api.name = <<"A", " ", "B", "!">>
    /\ api.value = <<"a", "-", "b">>
    /\ api.filename = <<"a", "-", "b", ".png">>

\* under SpecStage1: the record a successful item has just registered refers to the
\* file named after its id
RegisteredStemIsId ==
    (ItemDone /\ results[idx].status = "success") =>
        LET id == results[idx].buildingId
        IN  /\ id \in DOMAIN MappingNow.rec
            /\ MappingNow.rec[id].refImage = id \o <<".png">>
            /\ results[idx].refImagePath = id \o <<".png">>
            /\ id \o <<".png">> \in DOMAIN files


----------------------------------------------------------------------------
(* Errors of the status request, checked under SpecStage2 *)

\* the status query of this step raised an error, in fal.queue.status or in
\* fal.queue.result
PollRaised == IsPoll /\ s2'.last.kind \in {"statusThrows", "resultThrows"}

\* C38: a status query that raises an error, also a passing one and also one raised
\* while the result of a completed job is fetched, is reported as status FAILED: the
\* handle leaves the pending set with a failed result and the job is not polled again
\* in the run.
C38_PollErrorIsFailure ==
    /\ [][PollRaised =>
            LET job == Head(s2.sweep)
                r == s2'.results[Len(s2'.results)]
            IN  /\ s2'.last.status = "FAILED"
                /\ s2'.last.error # <<>>
                /\ Len(s2'.results) = Len(s2.results) + 1
                /\ r.status = "failed" /\ r.requestId = job.requestId
                /\ r.buildingId = job.buildingId
                /\ r.error = s2'.last.error
                /\ job \notin PendingSet(s2')
                /\ \A k \in 1..Len(s2'.sweep) : s2'.sweep[k].requestId # job.requestId
                /\ storage' = storage /\ glbs' = glbs]_vars
    /\ [][(IsPoll /\ Len(s2.results) > 0) =>
            \A k \in 1..Len(s2.results) :
                s2.results[k].requestId # Head(s2.sweep).requestId]_vars

\* the result request of a completed job raised an error in the first sweep; in the
\* second sweep only the other job is polled
C38_Witness ==
    /\ InPhase2
    /\ s2.sweeps = 2 /\ Len(s2.polled) = 1
    /\ Len(s2.results) = 1
    /\ s2.results[1].status = "failed"
    /\ s2.results[1].error = <<"result request failed">>
    /\ s2.results[1].requestId # s2.polled[1]
    /\ s2.pending = <<>> \/ s2.pending[1].requestId = s2.polled[1]


----------------------------------------------------------------------------
(* A completed job that cannot be processed, checked under SpecStage2 *)

\* the job polled in this step is reported COMPLETED with a result, and the result has
\* no model URL, or the download fails, or writing the .glb fails, or the registry
\* update fails (the write is refused, or the id is not in the registry)
CompletedButUnprocessed ==
    /\ IsPoll
    /\ s2'.last.status = "COMPLETED" /\ s2'.last.result # "none"
    /\ \/ s2'.last.result = "nourl"
       \/ ~s2'.last.downloaded
       \/ s2'.last.written \in {"saveFails", "updateFails"}
       \/ Head(s2.sweep).buildingId \notin DOMAIN readRegistry(storage).value.rec

\* C39: when a job is reported completed but its result has no model URL, the download
\* fails, the file write fails or the registry update fails, the handle leaves the
\* pending set with exactly one failed result, no success result is emitted for it, and
\* the job adds no '3dModel' to the registry record of its building.
C39_UnprocessedIsFailed ==
    [][CompletedButUnprocessed =>
          LET job == Head(s2.sweep)
              r == s2'.results[Len(s2'.results)]
          IN  /\ job \in PendingSet(s2) /\ job \notin PendingSet(s2')
              /\ PendingSet(s2') = PendingSet(s2) \ {job}
              /\ s2'.results = Append(s2.results, r)
              /\ r.status = "failed" /\ r.requestId = job.requestId
              /\ r.buildingId = job.buildingId
              /\ \A k \in 1..Len(s2.results) : s2.results[k].requestId # job.requestId
              /\ storage' = storage
              /\ s2'.last.written = "none" => glbs' = glbs]_vars

\* the download for the first of two completed jobs failed: it has a failed result, its
\* building has no model, and the other job is still pending
C39_Witness ==
    /\ InPhase2
    /\ s2.last.status = "COMPLETED" /\ s2.last.result = "url" /\ ~s2.last.downloaded
    /\ Len(s2.queuedJobs) = 2 /\ Len(s2.pending) = 1
    /\ s2.results = <<FailedJob(s2.queuedJobs[1], <<"Failed to download GLB">>)>>
    /\ ~HasField(readRegistry(storage).value.rec[s2.queuedJobs[1].buildingId], "3dModel")
    /\ s2.pending[1] = s2.queuedJobs[2]

\* the registry write for a completed and downloaded job was refused: a failed result,
\* the .glb is in the output directory, the record has no model
UpdateRefused ==
    /\ InPhase2
    /\ s2.last.written = "updateFails"
    /\ Len(s2.results) = 1 /\ s2.results[1].status = "failed"
    /\ GlbPathOf(s2.results[1].buildingId) \in glbs
    /\ storage = pre.storage


----------------------------------------------------------------------------
(* An image file without a registry record, checked under SpecRuns *)

\* the item in progress has a name whose image file exists although its id is not in
\* the registry, as the item found them
Orphaned ==
    /\ InStage1 /\ IdDerived
    /\ ItemFilename \in DOMAIN pre.files
    /\ generateBuildingId(cur.placeName) \notin DOMAIN MappingBefore.rec

\* C40: in skip-existing mode an item whose image file exists while its id is not in
\* the registry is not skipped; in every run it goes through capture, inference and
\* synthesis, ends failed at Save, and is never registered.
C40_OrphanedArtifact ==
    (Orphaned /\ opts.skipExisting) =>
        /\ pc # "register"
        /\ calls.registryWrites = 0 /\ calls.fileWrites = 0
        /\ storage = pre.storage /\ files = pre.files
        /\ ItemDone =>
              /\ LastResult.status = "failed"
              /\ LastResult.address = cur.address
              /\ calls.exists = 1
              /\ SaveReached =>
                    /\ calls.capture = 1 /\ calls.infer >= 1 /\ calls.synth >= 1
                    /\ calls.save = 1
                    /\ LastResult.error = ConflictMessage
              /\ LastResult.error = ConflictMessage => SaveReached

\* a second run in skip-existing mode over the orphaned image: capture, inference and
\* synthesis were done again and the item failed at Save, with nothing registered
C40_Witness ==
    /\ Orphaned /\ opts.skipExisting
    /\ runs = 2
    /\ ItemDone /\ SaveReached
    /\ calls.capture = 1 /\ calls.infer >= 1 /\ calls.synth >= 1 /\ calls.save = 1
    /\ LastResult.error = ConflictMessage
    /\ storage = AbsentStorage
    /\ files = (SeedFile :> "old")

====
